---- MODULE Spec2Model ----
(***************************************************************************)
(* The IDKG vault (LocalCspVault's IDkgProtocolCspVault implementation):   *)
(* the node secret key store, the canister secret key store, the CSPRNG    *)
(* and the locks that guard them, with the vault operations as sequences   *)
(* of steps taken by concurrent caller threads.                            *)
(*                                                                         *)
(* A step is one access to shared state (taking a lock, or the guarded     *)
(* access together with the release and the thread-local computation that  *)
(* follows it up to the next lock).                                        *)
(***************************************************************************)
EXTENDS Naturals, Integers, Sequences, FiniteSets, TLC

VARIABLES
  sks,                \* node secret key store: KeyId -> CspSecretKey
  canister_sks,       \* canister secret key store: KeyId -> CspSecretKey
  csprng,             \* number of 32-byte draws made from the CSPRNG so far
  csprng_lock,        \* RwLock around the CSPRNG
  sks_lock,           \* RwLock around the node secret key store
  canister_sks_lock,  \* RwLock around the canister secret key store
  frame,              \* per thread: the vault call it is in (or has returned from)
  prev,               \* per thread: summary of the call completed before the current one
  sig,                \* the subnet's signing round: what each receiver has loaded and signed
  csp,                \* the facade: each thread's call, a remembered stateless call, the keys handed out,
                      \* the commitments whose load has succeeded and those whose load has failed
  retrying            \* the test context's retry loop: its clock, attempts and outcome

vars == <<sks, canister_sks, csprng, csprng_lock, sks_lock, canister_sks_lock, frame, prev, sig, csp, retrying>>

----------------------------------------------------------------------------
(* Bounds and value universes *)

\* Draws the CSPRNG may hand out in one behaviour.
MaxDraws == 3

Threads == {"t1", "t2"}

Commitments == {"c1", "c2"}

\* Transcripts: two distinct transcripts share commitment c1.
Transcripts == { [id |-> "T1", combined_commitment |-> "c1"], [id |-> "T2", combined_commitment |-> "c1"], [id |-> "T3", combined_commitment |-> "c2"] }

\* What the dealings of a call decrypt to for this receiver.
Dealings == {"consistent", "inconsistent", "malformed"}

\* What the supplied openings reconstruct to.
Openings == {"valid", "invalid", "malformed"}

Contexts == {"ctx"}

ReceiverIndices == {0}

DealerIndices == {0}

\* The key pairs key generation can produce: seeds that agree modulo the
\* size of KeySpace give the same key pair.
KeySpace == {0, 1}

KeyOfSeed(seed) == seed % Cardinality(KeySpace)

Algorithms == {"ThresholdEcdsaSecp256k1", "Placeholder"}

None == [some |-> FALSE]

Some(x) == [some |-> TRUE, val |-> x]

NoThread == "none"

FreeLock == [writer |-> NoThread, readers |-> {}]

COMMITMENT_KEY_ID_DOMAIN == "ic-key-id-idkg-commitment"

MEGA_KEY_ID_DOMAIN == "ic-key-id-idkg-mega-encryption"

----------------------------------------------------------------------------
(* Key identifier derivation.  A domain-separated SHA-256 is modelled as   *)
(* the pair of its domain and its input: equal inputs give equal ids,      *)
(* different inputs or domains give different ids.                         *)

commitment_key_id(commitment) == [domain |-> COMMITMENT_KEY_ID_DOMAIN, bytes |-> <<"cbor", commitment>>]

mega_key_id(public_key) == [domain |-> MEGA_KEY_ID_DOMAIN, bytes |-> <<"pk", public_key>>]

----------------------------------------------------------------------------
(* Primitive library (external, stateless): each function is determined by *)
(* its inputs.                                                             *)

Ok(v) == [tag |-> "Ok", val |-> v]

Err(kind, detail) == [tag |-> "Err", err |-> kind, detail |-> detail]

\* gen_keypair(curve, seed): the key pair is a function of the seed.
gen_keypair(curve, seed) == [public_key |-> [curve |-> curve, point |-> KeyOfSeed(seed)], private_key |-> [curve |-> curve, scalar |-> KeyOfSeed(seed)]]

PublicKeys == {gen_keypair("K256", s).public_key : s \in KeySpace}

KeyIds == {mega_key_id(pk) : pk \in PublicKeys}

\* The receiver's share of the polynomial committed to by the transcript.
CommitmentOpeningOf(transcript, receiver_index) == [commitment |-> transcript.combined_commitment, index |-> receiver_index]

compute_secret_shares(dealings, transcript, context_data, receiver_index, private_key, public_key) ==
  CASE dealings = "consistent" -> Ok(CommitmentOpeningOf(transcript, receiver_index))
    [] dealings = "inconsistent" -> Err("InconsistentCommitments", "")
    [] OTHER -> Err("InternalError", "malformed dealings")

compute_secret_shares_with_openings(dealings, openings, transcript, context_data, receiver_index, private_key, public_key) ==
  CASE dealings = "malformed" \/ openings = "malformed" -> Err("InternalError", "malformed input")
    [] openings = "valid" -> Ok(CommitmentOpeningOf(transcript, receiver_index))
    [] OTHER -> Err("InconsistentCommitments", "")

generate_complaints(dealings, context_data, receiver_index, private_key, public_key, seed) == [dealings |-> dealings, context_data |-> context_data, complainer |-> receiver_index, private_key |-> private_key, public_key |-> public_key, seed |-> seed]

tecdsa_create_dealing(algorithm_id, context_data, dealer_index, reconstruction_threshold, receiver_keys, shares, seed) ==
  IF algorithm_id = "ThresholdEcdsaSecp256k1"
  THEN Ok([context_data |-> context_data, dealer_index |-> dealer_index, threshold |-> reconstruction_threshold, receiver_keys |-> receiver_keys, shares |-> shares, seed |-> seed])
  ELSE Err("UnsupportedAlgorithm", algorithm_id)

open_dealing(dealing, context_data, dealer_index, opener_index, opener_private_key, opener_public_key) ==
  IF dealing = "malformed"
  THEN Err("InternalError", "malformed dealing")
  ELSE Ok([dealing |-> dealing, dealer_index |-> dealer_index, opener_index |-> opener_index, opener |-> opener_public_key])

\* Conversions between the library's values and the stores' byte forms.
CommitmentOpeningBytes(opening) == <<"CommitmentOpeningBytes", opening>>

MEGaPublicKeyK256Bytes(public_key) == <<"MEGaPublicKeyK256Bytes", public_key>>

MEGaPrivateKeyK256Bytes(private_key) == <<"MEGaPrivateKeyK256Bytes", private_key>>

MEGaPublicKey_try_from(bytes) == bytes[2]

MEGaPrivateKey_try_from(bytes) == bytes[2]

\* CspSecretKey variants
IDkgCommitmentOpening(bytes) == [kind |-> "IDkgCommitmentOpening", bytes |-> bytes]

MEGaEncryptionK256(public_key_bytes, private_key_bytes) == [kind |-> "MEGaEncryptionK256", public_key |-> public_key_bytes, private_key |-> private_key_bytes]

\* CommitmentOpeningBytes::try_from(&opening); ser_ok is whether the encoder succeeds.
CommitmentOpeningBytes_try_from(opening, ser_ok) == IF ser_ok THEN Ok(CommitmentOpeningBytes(opening)) ELSE Err("SerializationError", "opening")

----------------------------------------------------------------------------
(* Secret key store (external): get / insert *)

EmptyStore == [k \in {} |-> None]

sks_get(store, key_id) == IF key_id \in DOMAIN store THEN Some(store[key_id]) ELSE None

sks_put(store, key_id, secret) == [k \in (DOMAIN store) \cup {key_id} |-> IF k = key_id THEN secret ELSE store[k]]

\* SecretKeyStore::insert: an identifier already present is refused.
sks_insert(store, key_id, secret) == IF key_id \in DOMAIN store THEN [ok |-> FALSE, store |-> store] ELSE [ok |-> TRUE, store |-> sks_put(store, key_id, secret)]

\* Inserting a commitment opening under an identifier already present is a
\* safe no-op (the content-addressing invariant makes it a duplicate).
store_canister_secret_key_or_panic(store, secret, key_id) == [panic |-> FALSE, store |-> sks_insert(store, key_id, secret).store]

\* Inserting a key pair under an identifier already present is fatal.
store_secret_key_or_panic(store, secret, key_id) == [panic |-> ~sks_insert(store, key_id, secret).ok, store |-> sks_insert(store, key_id, secret).store]

----------------------------------------------------------------------------
(* Locks: read-write locks; the CSPRNG is only ever taken for writing. *)

CanRead(lock) == lock.writer = NoThread

CanWrite(lock) == lock.writer = NoThread /\ lock.readers = {}

ReadLocked(lock, t) == [lock EXCEPT !.readers = @ \cup {t}]

ReadUnlocked(lock, t) == [lock EXCEPT !.readers = @ \ {t}]

WriteLocked(lock, t) == [lock EXCEPT !.writer = t]

WriteUnlocked(lock, t) == [lock EXCEPT !.writer = NoThread]

----------------------------------------------------------------------------
(* Call frames *)

IdleFrame == [op |-> "idle", args |-> None, pc |-> "idle", keyset |-> None, opening |-> None, seed |-> None, shares |-> None, lib |-> <<>>, draws |-> 0, writes |-> 0, result |-> None]

EntryPc(op) ==
  CASE op = "idkg_create_dealing" -> "cd_seed_lock"
    [] op = "idkg_load_transcript" -> "lt_check_lock"
    [] op = "idkg_load_transcript_with_openings" -> "lo_check_lock"
    [] op = "idkg_gen_mega_key_pair" -> "gk_seed_lock"
    [] op = "idkg_open_dealing" -> "od_keyset_lock"

NewFrame(op, args) == [IdleFrame EXCEPT !.op = op, !.args = args, !.pc = EntryPc(op)]

Returned(f, result) == [f EXCEPT !.pc = "done", !.result = Some(result)]

\* The frame after a primitive-library call fn(.., arg, ..) that gave res.
LibCalled(f, fn, arg, res) == [f EXCEPT !.lib = Append(@, [fn |-> fn, arg |-> arg, res |-> res])]

Running(t) == frame[t].pc \notin {"idle", "done", "aborted"}

\* No thread has aborted the process.
Alive == \A t \in Threads : frame[t].pc # "aborted"

\* Calls in flight that may still draw from the CSPRNG.
Reserved == Cardinality({t \in Threads : Running(t) /\ frame[t].draws = 0 /\ frame[t].op \in {"idkg_create_dealing", "idkg_load_transcript", "idkg_gen_mega_key_pair"}})

----------------------------------------------------------------------------
(* Lookups shared by the operations *)

\* Mutant: any stored opening is taken for the commitment's.
commitment_opening_from_sks_any(store, commitment) ==
  IF DOMAIN store # {}
  THEN Ok(store[CHOOSE k \in DOMAIN store : TRUE].bytes)
  ELSE Err("SecretSharesNotFound", [commitment_string |-> commitment])

commitment_opening_from_sks(store, commitment) ==
  LET key_id == commitment_key_id(commitment)
      opening == sks_get(store, key_id)
  IN IF opening.some /\ opening.val.kind = "IDkgCommitmentOpening"
     THEN Ok(opening.val.bytes)
     ELSE Err("SecretSharesNotFound", [commitment_string |-> commitment])

\* Mutant: a missing key pair is replaced by the first key pair.
mega_keyset_from_sks_default(store, key_id) ==
  LET found == sks_get(store, key_id)
  IN IF found.some /\ found.val.kind = "MEGaEncryptionK256"
     THEN Ok([public_key |-> MEGaPublicKey_try_from(found.val.public_key), private_key |-> MEGaPrivateKey_try_from(found.val.private_key)])
     ELSE Ok(gen_keypair("K256", 0))

\* The key pair stored under key_id; a missing one is reported without a payload.
mega_keyset_from_sks(store, key_id) ==
  LET found == sks_get(store, key_id)
  IN IF found.some /\ found.val.kind = "MEGaEncryptionK256"
     THEN IF found.val.public_key[1] = "MEGaPublicKeyK256Bytes" /\ found.val.private_key[1] = "MEGaPrivateKeyK256Bytes"
          THEN Ok([public_key |-> MEGaPublicKey_try_from(found.val.public_key), private_key |-> MEGaPrivateKey_try_from(found.val.private_key)])
          ELSE Err("SerializationError", "keyset")
     ELSE Err("PrivateKeyNotFound", None)

\* Mutant: the opening is kept under the transcript's identity.
opening_key_id_by_transcript(transcript) == commitment_key_id(transcript.id)

\* The store identifier a loaded transcript's opening is kept under.
opening_key_id(transcript) == commitment_key_id(transcript.combined_commitment)

Randomness_from(bytes) == <<"Randomness", bytes>>

Seed_from_rng(bytes) == <<"Seed", bytes>>

----------------------------------------------------------------------------
(* idkg_load_transcript *)

LoadTranscriptArgs == [dealings : Dealings, context_data : Contexts, receiver_index : ReceiverIndices, key_id : KeyIds, transcript : Transcripts]

\* Take the canister store's read lock for the "already stored" check.
idkg_load_transcript_check_lock(t) ==
  /\ Alive
  /\ frame[t].pc = "lt_check_lock"
  /\ CanRead(canister_sks_lock)
  /\ canister_sks_lock' = ReadLocked(canister_sks_lock, t)
  /\ frame' = [frame EXCEPT ![t].pc = "lt_check"]
  /\ UNCHANGED <<sks, canister_sks, csprng, csprng_lock, sks_lock, prev, sig, csp, retrying>>

\* Mutant: the load never looks for a stored opening.
load_transcript_checked_never(f, store) == [f EXCEPT !.pc = "lt_keyset_lock"]

\* If the opening is already stored, nothing to do.
load_transcript_checked(f, store) ==
  IF commitment_opening_from_sks(store, f.args.transcript.combined_commitment).tag = "Ok"
  THEN Returned(f, Ok({}))
  ELSE [f EXCEPT !.pc = "lt_keyset_lock"]

idkg_load_transcript_check(t) ==
  /\ Alive
  /\ frame[t].pc = "lt_check"
  /\ canister_sks_lock' = ReadUnlocked(canister_sks_lock, t)
  /\ frame' = [frame EXCEPT ![t] = load_transcript_checked(frame[t], canister_sks)]
  /\ UNCHANGED <<sks, canister_sks, csprng, csprng_lock, sks_lock, prev, sig, csp, retrying>>

idkg_load_transcript_keyset_lock(t) ==
  /\ Alive
  /\ frame[t].pc = "lt_keyset_lock"
  /\ CanRead(sks_lock)
  /\ sks_lock' = ReadLocked(sks_lock, t)
  /\ frame' = [frame EXCEPT ![t].pc = "lt_keyset"]
  /\ UNCHANGED <<sks, canister_sks, csprng, csprng_lock, canister_sks_lock, prev, sig, csp, retrying>>

\* Mutant: on inconsistent commitments a placeholder opening is stored.
load_transcript_computed_placeholder(f, store, ser_ok) ==
  LET keyset == mega_keyset_from_sks(store, f.args.key_id)
  IN IF keyset.tag = "Err" THEN Returned(f, keyset)
     ELSE LET a == f.args
              res == compute_secret_shares(a.dealings, a.transcript, a.context_data, a.receiver_index, keyset.val.private_key, keyset.val.public_key)
              g == LibCalled([f EXCEPT !.keyset = Some(keyset.val)], "compute_secret_shares", a, res)
          IN IF res.tag = "Ok"
             THEN LET bytes == CommitmentOpeningBytes_try_from(res.val, ser_ok)
                  IN IF bytes.tag = "Err" THEN Returned(g, bytes)
                     ELSE [g EXCEPT !.opening = Some(bytes.val), !.pc = "lt_store_lock"]
             ELSE IF res.err = "InconsistentCommitments"
                  THEN [g EXCEPT !.opening = Some(CommitmentOpeningBytes("placeholder")), !.pc = "lt_store_lock"]
                  ELSE Returned(g, Err("InternalError", res.detail))

\* Mutant: an internal error of the library is swallowed.
load_transcript_computed_swallowing(f, store, ser_ok) ==
  LET keyset == mega_keyset_from_sks(store, f.args.key_id)
  IN IF keyset.tag = "Err" THEN Returned(f, keyset)
     ELSE LET a == f.args
              res == compute_secret_shares(a.dealings, a.transcript, a.context_data, a.receiver_index, keyset.val.private_key, keyset.val.public_key)
              g == LibCalled([f EXCEPT !.keyset = Some(keyset.val)], "compute_secret_shares", a, res)
          IN IF res.tag = "Ok"
             THEN LET bytes == CommitmentOpeningBytes_try_from(res.val, ser_ok)
                  IN IF bytes.tag = "Err" THEN Returned(g, bytes)
                     ELSE [g EXCEPT !.opening = Some(bytes.val), !.pc = "lt_store_lock"]
             ELSE IF res.err = "InconsistentCommitments"
                  THEN [g EXCEPT !.pc = "lt_seed_lock"]
                  ELSE Returned(g, Ok({}))

\* Mutant: a seed is drawn after every failure of the library.
load_transcript_computed_eager(f, store, ser_ok) ==
  LET keyset == mega_keyset_from_sks(store, f.args.key_id)
  IN IF keyset.tag = "Err" THEN Returned(f, keyset)
     ELSE LET a == f.args
              res == compute_secret_shares(a.dealings, a.transcript, a.context_data, a.receiver_index, keyset.val.private_key, keyset.val.public_key)
              g == LibCalled([f EXCEPT !.keyset = Some(keyset.val)], "compute_secret_shares", a, res)
          IN IF res.tag = "Ok"
             THEN LET bytes == CommitmentOpeningBytes_try_from(res.val, ser_ok)
                  IN IF bytes.tag = "Err" THEN Returned(g, bytes)
                     ELSE [g EXCEPT !.opening = Some(bytes.val), !.pc = "lt_store_lock"]
             ELSE [g EXCEPT !.pc = "lt_seed_lock"]

\* Fetch the key pair, compute the secret shares and branch on the outcome.
load_transcript_computed(f, store, ser_ok) ==
  LET keyset == mega_keyset_from_sks(store, f.args.key_id)
  IN IF keyset.tag = "Err" THEN Returned(f, keyset)
     ELSE LET a == f.args
              res == compute_secret_shares(a.dealings, a.transcript, a.context_data, a.receiver_index, keyset.val.private_key, keyset.val.public_key)
              g == LibCalled([f EXCEPT !.keyset = Some(keyset.val)], "compute_secret_shares", a, res)
          IN IF res.tag = "Ok"
             THEN LET bytes == CommitmentOpeningBytes_try_from(res.val, ser_ok)
                  IN IF bytes.tag = "Err" THEN Returned(g, bytes)
                     ELSE [g EXCEPT !.opening = Some(bytes.val), !.pc = "lt_store_lock"]
             ELSE IF res.err = "InconsistentCommitments"
                  THEN [g EXCEPT !.pc = "lt_seed_lock"]
                  ELSE Returned(g, Err("InternalError", res.detail))

\* Mutant: the node store's read guard is kept past the key pair lookup.
idkg_load_transcript_keyset_guarded(t) ==
  /\ Alive
  /\ frame[t].pc = "lt_keyset"
  /\ \E ser_ok \in BOOLEAN : frame' = [frame EXCEPT ![t] = load_transcript_computed(frame[t], sks, ser_ok)]
  /\ UNCHANGED <<sks, canister_sks, csprng, csprng_lock, sks_lock, canister_sks_lock, prev, sig, csp, retrying>>

idkg_load_transcript_keyset(t) ==
  /\ Alive
  /\ frame[t].pc = "lt_keyset"
  /\ sks_lock' = ReadUnlocked(sks_lock, t)
  /\ \E ser_ok \in BOOLEAN : frame' = [frame EXCEPT ![t] = load_transcript_computed(frame[t], sks, ser_ok)]
  /\ UNCHANGED <<sks, canister_sks, csprng, csprng_lock, canister_sks_lock, prev, sig, csp, retrying>>

idkg_load_transcript_store_lock(t) ==
  /\ Alive
  /\ frame[t].pc = "lt_store_lock"
  /\ CanWrite(canister_sks_lock)
  /\ canister_sks_lock' = WriteLocked(canister_sks_lock, t)
  /\ frame' = [frame EXCEPT ![t].pc = "lt_store"]
  /\ UNCHANGED <<sks, canister_sks, csprng, csprng_lock, sks_lock, prev, sig, csp, retrying>>

\* The frame after the opening has been handed to the canister store.
opening_stored(f, stored, value) ==
  IF stored.panic THEN [f EXCEPT !.pc = "aborted", !.writes = @ + 1]
  ELSE Returned([f EXCEPT !.writes = @ + 1], Ok(value))

\* Mutant: the insert replaces the canister store's content.
idkg_load_transcript_store_replacing(t) ==
  /\ Alive
  /\ frame[t].pc = "lt_store"
  /\ canister_sks' = sks_put(EmptyStore, opening_key_id(frame[t].args.transcript), IDkgCommitmentOpening(frame[t].opening.val))
  /\ frame' = [frame EXCEPT ![t] = opening_stored(frame[t], [panic |-> FALSE], {})]
  /\ canister_sks_lock' = WriteUnlocked(canister_sks_lock, t)
  /\ UNCHANGED <<sks, csprng, csprng_lock, sks_lock, prev, sig, csp, retrying>>

idkg_load_transcript_store(t) ==
  /\ Alive
  /\ frame[t].pc = "lt_store"
  /\ LET stored == store_canister_secret_key_or_panic(canister_sks, IDkgCommitmentOpening(frame[t].opening.val), opening_key_id(frame[t].args.transcript))
     IN /\ canister_sks' = stored.store
        /\ frame' = [frame EXCEPT ![t] = opening_stored(frame[t], stored, {})]
  /\ canister_sks_lock' = WriteUnlocked(canister_sks_lock, t)
  /\ UNCHANGED <<sks, csprng, csprng_lock, sks_lock, prev, sig, csp, retrying>>

idkg_load_transcript_seed_lock(t) ==
  /\ Alive
  /\ frame[t].pc = "lt_seed_lock"
  /\ CanWrite(csprng_lock)
  /\ csprng_lock' = WriteLocked(csprng_lock, t)
  /\ frame' = [frame EXCEPT ![t].pc = "lt_seed"]
  /\ UNCHANGED <<sks, canister_sks, csprng, sks_lock, canister_sks_lock, prev, sig, csp, retrying>>

\* Mutant: the complaints are generated and dropped.
load_transcript_complained_silent(f, bytes, gc_ok) ==
  LET seed == Seed_from_rng(bytes)
      complaints == generate_complaints(f.args.dealings, f.args.context_data, f.args.receiver_index, f.keyset.val.private_key, f.keyset.val.public_key, seed)
  IN Returned(LibCalled([f EXCEPT !.seed = Some(seed), !.draws = @ + 1], "generate_complaints", [receiver_index |-> f.args.receiver_index, keyset |-> f.keyset.val, seed |-> seed], Ok({complaints})), Ok({}))

\* Draw a seed and generate the complaints; gc_ok is whether the library succeeds.
load_transcript_complained(f, bytes, gc_ok) ==
  LET a == f.args
      seed == Seed_from_rng(bytes)
      complaints == IF gc_ok THEN Ok({generate_complaints(a.dealings, a.context_data, a.receiver_index, f.keyset.val.private_key, f.keyset.val.public_key, seed)}) ELSE Err("InternalError", "generate_complaints")
  IN Returned(LibCalled([f EXCEPT !.seed = Some(seed), !.draws = @ + 1], "generate_complaints", [receiver_index |-> a.receiver_index, keyset |-> f.keyset.val, seed |-> seed], complaints), complaints)

idkg_load_transcript_seed(t) ==
  /\ Alive
  /\ frame[t].pc = "lt_seed"
  /\ csprng' = csprng + 1
  /\ csprng_lock' = WriteUnlocked(csprng_lock, t)
  /\ \E gc_ok \in BOOLEAN : frame' = [frame EXCEPT ![t] = load_transcript_complained(frame[t], csprng, gc_ok)]
  /\ UNCHANGED <<sks, canister_sks, sks_lock, canister_sks_lock, prev, sig, csp, retrying>>

idkg_load_transcript(t) ==
  \/ idkg_load_transcript_check_lock(t)
  \/ idkg_load_transcript_check(t)
  \/ idkg_load_transcript_keyset_lock(t)
  \/ idkg_load_transcript_keyset(t)
  \/ idkg_load_transcript_store_lock(t)
  \/ idkg_load_transcript_store(t)
  \/ idkg_load_transcript_seed_lock(t)
  \/ idkg_load_transcript_seed(t)

----------------------------------------------------------------------------
(* idkg_load_transcript_with_openings *)

\* Openings are supplied for dealings a plain load has complained about.
LoadWithOpeningsArgs == [dealings : {"inconsistent"}, openings : Openings, context_data : Contexts, receiver_index : ReceiverIndices, key_id : KeyIds, transcript : Transcripts]

idkg_load_transcript_with_openings_check_lock(t) ==
  /\ Alive
  /\ frame[t].pc = "lo_check_lock"
  /\ CanRead(canister_sks_lock)
  /\ canister_sks_lock' = ReadLocked(canister_sks_lock, t)
  /\ frame' = [frame EXCEPT ![t].pc = "lo_check"]
  /\ UNCHANGED <<sks, canister_sks, csprng, csprng_lock, sks_lock, prev, sig, csp, retrying>>

\* Mutant: the load with openings fetches the key pair whatever is stored.
load_with_openings_checked_never(f, store) == [f EXCEPT !.pc = "lo_keyset_lock"]

\* If the opening is already stored, nothing to do.
load_with_openings_checked(f, store) ==
  IF commitment_opening_from_sks(store, f.args.transcript.combined_commitment).tag = "Ok"
  THEN Returned(f, Ok("unit"))
  ELSE [f EXCEPT !.pc = "lo_keyset_lock"]

idkg_load_transcript_with_openings_check(t) ==
  /\ Alive
  /\ frame[t].pc = "lo_check"
  /\ canister_sks_lock' = ReadUnlocked(canister_sks_lock, t)
  /\ frame' = [frame EXCEPT ![t] = load_with_openings_checked(frame[t], canister_sks)]
  /\ UNCHANGED <<sks, canister_sks, csprng, csprng_lock, sks_lock, prev, sig, csp, retrying>>

idkg_load_transcript_with_openings_keyset_lock(t) ==
  /\ Alive
  /\ frame[t].pc = "lo_keyset_lock"
  /\ CanRead(sks_lock)
  /\ sks_lock' = ReadLocked(sks_lock, t)
  /\ frame' = [frame EXCEPT ![t].pc = "lo_keyset"]
  /\ UNCHANGED <<sks, canister_sks, csprng, csprng_lock, canister_sks_lock, prev, sig, csp, retrying>>

\* Mutant: a result that is still inconsistent is taken for success.
load_with_openings_computed_lenient(f, store, ser_ok) ==
  LET keyset == mega_keyset_from_sks(store, f.args.key_id)
  IN IF keyset.tag = "Err" THEN Returned(f, keyset)
     ELSE LET a == f.args
              res == compute_secret_shares_with_openings(a.dealings, a.openings, a.transcript, a.context_data, a.receiver_index, keyset.val.private_key, keyset.val.public_key)
              g == LibCalled([f EXCEPT !.keyset = Some(keyset.val)], "compute_secret_shares_with_openings", a, res)
          IN IF res.tag = "Ok"
             THEN [g EXCEPT !.opening = Some(CommitmentOpeningBytes(res.val)), !.pc = "lo_store_lock"]
             ELSE Returned(g, Ok("unit"))

\* Fetch the key pair, compute the shares with the openings, branch on the outcome.
load_with_openings_computed(f, store, ser_ok) ==
  LET keyset == mega_keyset_from_sks(store, f.args.key_id)
  IN IF keyset.tag = "Err" THEN Returned(f, keyset)
     ELSE LET a == f.args
              res == compute_secret_shares_with_openings(a.dealings, a.openings, a.transcript, a.context_data, a.receiver_index, keyset.val.private_key, keyset.val.public_key)
              g == LibCalled([f EXCEPT !.keyset = Some(keyset.val)], "compute_secret_shares_with_openings", a, res)
          IN IF res.tag = "Ok"
             THEN LET bytes == CommitmentOpeningBytes_try_from(res.val, ser_ok)
                  IN IF bytes.tag = "Err" THEN Returned(g, bytes)
                     ELSE [g EXCEPT !.opening = Some(bytes.val), !.pc = "lo_store_lock"]
             ELSE IF res.err = "InconsistentCommitments"
                  THEN Returned(g, Err("InvalidArguments", "failed to compute secret shares with the provided openings"))
                  ELSE Returned(g, Err("InvalidArguments", res.detail))

idkg_load_transcript_with_openings_keyset(t) ==
  /\ Alive
  /\ frame[t].pc = "lo_keyset"
  /\ sks_lock' = ReadUnlocked(sks_lock, t)
  /\ \E ser_ok \in BOOLEAN : frame' = [frame EXCEPT ![t] = load_with_openings_computed(frame[t], sks, ser_ok)]
  /\ UNCHANGED <<sks, canister_sks, csprng, csprng_lock, canister_sks_lock, prev, sig, csp, retrying>>

idkg_load_transcript_with_openings_store_lock(t) ==
  /\ Alive
  /\ frame[t].pc = "lo_store_lock"
  /\ CanWrite(canister_sks_lock)
  /\ canister_sks_lock' = WriteLocked(canister_sks_lock, t)
  /\ frame' = [frame EXCEPT ![t].pc = "lo_store"]
  /\ UNCHANGED <<sks, canister_sks, csprng, csprng_lock, sks_lock, prev, sig, csp, retrying>>

idkg_load_transcript_with_openings_store(t) ==
  /\ Alive
  /\ frame[t].pc = "lo_store"
  /\ LET stored == store_canister_secret_key_or_panic(canister_sks, IDkgCommitmentOpening(frame[t].opening.val), opening_key_id(frame[t].args.transcript))
     IN /\ canister_sks' = stored.store
        /\ frame' = [frame EXCEPT ![t] = opening_stored(frame[t], stored, "unit")]
  /\ canister_sks_lock' = WriteUnlocked(canister_sks_lock, t)
  /\ UNCHANGED <<sks, csprng, csprng_lock, sks_lock, prev, sig, csp, retrying>>

idkg_load_transcript_with_openings(t) ==
  \/ idkg_load_transcript_with_openings_check_lock(t)
  \/ idkg_load_transcript_with_openings_check(t)
  \/ idkg_load_transcript_with_openings_keyset_lock(t)
  \/ idkg_load_transcript_with_openings_keyset(t)
  \/ idkg_load_transcript_with_openings_store_lock(t)
  \/ idkg_load_transcript_with_openings_store(t)

----------------------------------------------------------------------------
(* idkg_create_dealing and get_secret_shares *)

TranscriptOperations ==
  {[kind |-> "Random"]}
  \cup {[kind |-> k, commitment |-> c] : k \in {"ReshareOfUnmasked", "ReshareOfMasked"}, c \in Commitments}
  \cup {[kind |-> "UnmaskedTimesMasked", commitment_1 |-> c1, commitment_2 |-> c2] : c1 \in Commitments, c2 \in Commitments}

Thresholds == {1}

ReceiverKeys == {[i \in 1..Cardinality(KeySpace) |-> gen_keypair("K256", i - 1).public_key]}

CreateDealingArgs == [algorithm_id : Algorithms, context_data : Contexts, dealer_index : DealerIndices, reconstruction_threshold : Thresholds, receiver_keys : ReceiverKeys, transcript_operation : TranscriptOperations]

SecretShares_Random == [kind |-> "Random"]

\* SecretShares::try_from((&first, second)); conv_ok is whether the bytes decode.
SecretShares_try_from(first, second, conv_ok) == IF conv_ok THEN Ok([kind |-> "FromOpenings", first |-> first, second |-> second]) ELSE Err("InternalError", "secret shares")

\* The first commitment get_secret_shares looks up for the operation.
first_commitment(op) == IF op.kind = "UnmaskedTimesMasked" THEN op.commitment_1 ELSE op.commitment

\* Mutant: the library is given a fixed seed instead of the one drawn.
create_dealing_finished_fixed_seed(f, shares) ==
  LET a == f.args
      res == tecdsa_create_dealing(a.algorithm_id, a.context_data, a.dealer_index, a.reconstruction_threshold, a.receiver_keys, shares, Randomness_from(0))
  IN Returned(LibCalled(f, "create_dealing", [shares |-> shares, seed |-> Randomness_from(0)], res), IF res.tag = "Ok" THEN res ELSE Err("InternalError", res.err))

\* The library call that ends a dealing creation, with its error mapping.
create_dealing_finished(f, shares) ==
  LET a == f.args
      res == tecdsa_create_dealing(a.algorithm_id, a.context_data, a.dealer_index, a.reconstruction_threshold, a.receiver_keys, shares, f.seed.val)
  IN Returned(LibCalled(f, "create_dealing", [shares |-> shares, seed |-> f.seed.val], res), IF res.tag = "Ok" THEN res ELSE Err("InternalError", res.err))

\* Mutant: the shares are unwrapped instead of propagated with `?`.
create_dealing_with_shares_unwrapped(f, shares) == IF shares.tag = "Err" THEN [f EXCEPT !.pc = "aborted"] ELSE create_dealing_finished(f, shares.val)

\* `get_secret_shares(..)?` once the shares are resolved or have failed.
create_dealing_with_shares(f, shares) == IF shares.tag = "Err" THEN Returned(f, shares) ELSE create_dealing_finished(f, shares.val)

idkg_create_dealing_seed_lock(t) ==
  /\ Alive
  /\ frame[t].pc = "cd_seed_lock"
  /\ CanWrite(csprng_lock)
  /\ csprng_lock' = WriteLocked(csprng_lock, t)
  /\ frame' = [frame EXCEPT ![t].pc = "cd_seed"]
  /\ UNCHANGED <<sks, canister_sks, csprng, sks_lock, canister_sks_lock, prev, sig, csp, retrying>>

\* The seed is drawn first; a Random operation needs no lookup.
create_dealing_seeded(f, bytes) ==
  LET g == [f EXCEPT !.seed = Some(Randomness_from(bytes)), !.draws = @ + 1]
  IN IF f.args.transcript_operation.kind = "Random"
     THEN create_dealing_with_shares(g, Ok(SecretShares_Random))
     ELSE [g EXCEPT !.pc = "cd_shares_lock"]

idkg_create_dealing_seed(t) ==
  /\ Alive
  /\ frame[t].pc = "cd_seed"
  /\ csprng' = csprng + 1
  /\ csprng_lock' = WriteUnlocked(csprng_lock, t)
  /\ frame' = [frame EXCEPT ![t] = create_dealing_seeded(frame[t], csprng)]
  /\ UNCHANGED <<sks, canister_sks, sks_lock, canister_sks_lock, prev, sig, csp, retrying>>

get_secret_shares_lock(t) ==
  /\ Alive
  /\ frame[t].pc \in {"cd_shares_lock", "cd_shares2_lock"}
  /\ CanRead(canister_sks_lock)
  /\ canister_sks_lock' = ReadLocked(canister_sks_lock, t)
  /\ frame' = [frame EXCEPT ![t].pc = IF @ = "cd_shares_lock" THEN "cd_shares" ELSE "cd_shares2"]
  /\ UNCHANGED <<sks, canister_sks, csprng, csprng_lock, sks_lock, prev, sig, csp, retrying>>

\* Mutant: a missing opening is treated as a Random operation.
get_secret_shares_first_random(f, store, conv_ok) ==
  LET op == f.args.transcript_operation
      found == commitment_opening_from_sks(store, first_commitment(op))
  IN IF found.tag = "Err" THEN create_dealing_with_shares(f, Ok(SecretShares_Random))
     ELSE IF op.kind = "UnmaskedTimesMasked"
          THEN [f EXCEPT !.shares = Some(found.val), !.pc = "cd_shares2_lock"]
          ELSE create_dealing_with_shares(f, SecretShares_try_from(found.val, None, conv_ok))

\* Mutant: the second commitment of a product is looked up before the first.
get_secret_shares_first_reversed(f, store, conv_ok) ==
  LET op == f.args.transcript_operation
      found == commitment_opening_from_sks(store, first_commitment(op))
      second == IF op.kind = "UnmaskedTimesMasked" THEN commitment_opening_from_sks(store, op.commitment_2) ELSE found
  IN IF second.tag = "Err" THEN Returned(f, second)
     ELSE IF found.tag = "Err" THEN Returned(f, found)
     ELSE IF op.kind = "UnmaskedTimesMasked"
          THEN [f EXCEPT !.shares = Some(found.val), !.pc = "cd_shares2_lock"]
          ELSE create_dealing_with_shares(f, SecretShares_try_from(found.val, None, conv_ok))

\* First (or only) opening lookup of get_secret_shares.
get_secret_shares_first(f, store, conv_ok) ==
  LET op == f.args.transcript_operation
      found == commitment_opening_from_sks(store, first_commitment(op))
  IN IF found.tag = "Err" THEN Returned(f, found)
     ELSE IF op.kind = "UnmaskedTimesMasked"
          THEN [f EXCEPT !.shares = Some(found.val), !.pc = "cd_shares2_lock"]
          ELSE create_dealing_with_shares(f, SecretShares_try_from(found.val, None, conv_ok))

\* Second opening lookup, for UnmaskedTimesMasked.
get_secret_shares_second(f, store, conv_ok) ==
  LET found == commitment_opening_from_sks(store, f.args.transcript_operation.commitment_2)
  IN IF found.tag = "Err" THEN Returned(f, found)
     ELSE create_dealing_with_shares(f, SecretShares_try_from(f.shares.val, Some(found.val), conv_ok))

get_secret_shares(t) ==
  /\ Alive
  /\ frame[t].pc \in {"cd_shares", "cd_shares2"}
  /\ canister_sks_lock' = ReadUnlocked(canister_sks_lock, t)
  /\ \E conv_ok \in BOOLEAN :
       frame' = [frame EXCEPT ![t] = IF @.pc = "cd_shares" THEN get_secret_shares_first(@, canister_sks, conv_ok) ELSE get_secret_shares_second(@, canister_sks, conv_ok)]
  /\ UNCHANGED <<sks, canister_sks, csprng, csprng_lock, sks_lock, prev, sig, csp, retrying>>

idkg_create_dealing(t) ==
  \/ idkg_create_dealing_seed_lock(t)
  \/ idkg_create_dealing_seed(t)
  \/ get_secret_shares_lock(t)
  \/ get_secret_shares(t)

----------------------------------------------------------------------------
(* idkg_gen_mega_key_pair *)

GenMegaKeyPairArgs == [algorithm_id : Algorithms]

\* Mutant: the draw proceeds without exclusive access to the CSPRNG.
idkg_gen_mega_key_pair_seed_lock_shared(t) ==
  /\ Alive
  /\ frame[t].pc = "gk_seed_lock"
  /\ csprng_lock' = WriteLocked(csprng_lock, t)
  /\ frame' = [frame EXCEPT ![t].pc = "gk_seed"]
  /\ UNCHANGED <<sks, canister_sks, csprng, sks_lock, canister_sks_lock, prev, sig, csp, retrying>>

idkg_gen_mega_key_pair_seed_lock(t) ==
  /\ Alive
  /\ frame[t].pc = "gk_seed_lock"
  /\ CanWrite(csprng_lock)
  /\ csprng_lock' = WriteLocked(csprng_lock, t)
  /\ frame' = [frame EXCEPT ![t].pc = "gk_seed"]
  /\ UNCHANGED <<sks, canister_sks, csprng, sks_lock, canister_sks_lock, prev, sig, csp, retrying>>

\* Mutant: the generated key pair is returned without being stored.
gen_mega_key_pair_seeded_unstored(f, bytes, kg_ok, ser_ok) ==
  LET seed == Randomness_from(bytes)
      g == [f EXCEPT !.seed = Some(seed), !.draws = @ + 1]
  IN IF f.args.algorithm_id = "ThresholdEcdsaSecp256k1"
     THEN LET res == IF kg_ok THEN Ok(gen_keypair("K256", bytes)) ELSE Err("FailedKeyGeneration", "gen_keypair")
              h == LibCalled(g, "gen_keypair", [seed |-> seed], res)
          IN IF res.tag = "Err" THEN Returned(h, res)
             ELSE IF ~ser_ok THEN Returned(h, Err("SerializationError", "keyset"))
                  ELSE Returned([h EXCEPT !.keyset = Some(res.val), !.writes = @ + 1], Ok(res.val.public_key))
     ELSE Returned(g, Err("UnsupportedAlgorithm", f.args.algorithm_id))

\* Draw the seed, then generate and serialise the key pair; kg_ok and ser_ok
\* are whether the library's generation and the encoders succeed.
gen_mega_key_pair_seeded(f, bytes, kg_ok, ser_ok) ==
  LET seed == Randomness_from(bytes)
      g == [f EXCEPT !.seed = Some(seed), !.draws = @ + 1]
  IN IF f.args.algorithm_id = "ThresholdEcdsaSecp256k1"
     THEN LET res == IF kg_ok THEN Ok(gen_keypair("K256", bytes)) ELSE Err("FailedKeyGeneration", "gen_keypair")
              h == LibCalled(g, "gen_keypair", [seed |-> seed], res)
          IN IF res.tag = "Err" THEN Returned(h, res)
             ELSE IF ~ser_ok THEN Returned(h, Err("SerializationError", "keyset"))
                  ELSE [h EXCEPT !.keyset = Some(res.val), !.pc = "gk_store_lock"]
     ELSE Returned(g, Err("UnsupportedAlgorithm", f.args.algorithm_id))

idkg_gen_mega_key_pair_seed(t) ==
  /\ Alive
  /\ frame[t].pc = "gk_seed"
  /\ csprng' = csprng + 1
  /\ csprng_lock' = WriteUnlocked(csprng_lock, t)
  /\ \E kg_ok \in BOOLEAN, ser_ok \in BOOLEAN : frame' = [frame EXCEPT ![t] = gen_mega_key_pair_seeded(frame[t], csprng, kg_ok, ser_ok)]
  /\ UNCHANGED <<sks, canister_sks, sks_lock, canister_sks_lock, prev, sig, csp, retrying>>

idkg_gen_mega_key_pair_store_lock(t) ==
  /\ Alive
  /\ frame[t].pc = "gk_store_lock"
  /\ CanWrite(sks_lock)
  /\ sks_lock' = WriteLocked(sks_lock, t)
  /\ frame' = [frame EXCEPT ![t].pc = "gk_store"]
  /\ UNCHANGED <<sks, canister_sks, csprng, csprng_lock, canister_sks_lock, prev, sig, csp, retrying>>

\* Mutant: a refused insert is ignored and the call returns the public key.
keyset_stored_ignoring(f, stored) == Returned([f EXCEPT !.writes = @ + 1], Ok(f.keyset.val.public_key))

\* The frame after the key pair has been handed to the node store.
keyset_stored(f, stored) ==
  IF stored.panic THEN [f EXCEPT !.pc = "aborted"]
  ELSE Returned([f EXCEPT !.writes = @ + 1], Ok(f.keyset.val.public_key))

\* Mutant: the key pair is put into the canister store.
idkg_gen_mega_key_pair_store_misplaced(t) ==
  /\ Alive
  /\ frame[t].pc = "gk_store"
  /\ LET kp == frame[t].keyset.val
         stored == store_secret_key_or_panic(canister_sks, MEGaEncryptionK256(MEGaPublicKeyK256Bytes(kp.public_key), MEGaPrivateKeyK256Bytes(kp.private_key)), mega_key_id(kp.public_key))
     IN /\ canister_sks' = stored.store
        /\ frame' = [frame EXCEPT ![t] = keyset_stored(frame[t], stored)]
  /\ sks_lock' = WriteUnlocked(sks_lock, t)
  /\ UNCHANGED <<sks, csprng, csprng_lock, canister_sks_lock, prev, sig, csp, retrying>>

idkg_gen_mega_key_pair_store(t) ==
  /\ Alive
  /\ frame[t].pc = "gk_store"
  /\ LET kp == frame[t].keyset.val
         stored == store_secret_key_or_panic(sks, MEGaEncryptionK256(MEGaPublicKeyK256Bytes(kp.public_key), MEGaPrivateKeyK256Bytes(kp.private_key)), mega_key_id(kp.public_key))
     IN /\ sks' = stored.store
        /\ frame' = [frame EXCEPT ![t] = keyset_stored(frame[t], stored)]
  /\ sks_lock' = WriteUnlocked(sks_lock, t)
  /\ UNCHANGED <<canister_sks, csprng, csprng_lock, canister_sks_lock, prev, sig, csp, retrying>>

idkg_gen_mega_key_pair(t) ==
  \/ idkg_gen_mega_key_pair_seed_lock(t)
  \/ idkg_gen_mega_key_pair_seed(t)
  \/ idkg_gen_mega_key_pair_store_lock(t)
  \/ idkg_gen_mega_key_pair_store(t)

----------------------------------------------------------------------------
(* idkg_open_dealing *)

OpenDealingArgs == [dealing : {"consistent", "malformed"}, dealer_index : DealerIndices, context_data : Contexts, opener_index : ReceiverIndices, opener_key_id : KeyIds]

idkg_open_dealing_keyset_lock(t) ==
  /\ Alive
  /\ frame[t].pc = "od_keyset_lock"
  /\ CanRead(sks_lock)
  /\ sks_lock' = ReadLocked(sks_lock, t)
  /\ frame' = [frame EXCEPT ![t].pc = "od_keyset"]
  /\ UNCHANGED <<sks, canister_sks, csprng, csprng_lock, canister_sks_lock, prev, sig, csp, retrying>>

\* Mutant: the lookup's error is passed on as it is, without the key id.
open_dealing_opened_unmapped(f, store) ==
  LET a == f.args
      keyset == mega_keyset_from_sks(store, a.opener_key_id)
  IN IF keyset.tag = "Err" THEN Returned(f, keyset)
     ELSE LET res == open_dealing(a.dealing, a.context_data, a.dealer_index, a.opener_index, keyset.val.private_key, keyset.val.public_key)
          IN Returned(LibCalled([f EXCEPT !.keyset = Some(keyset.val)], "open_dealing", a, res), IF res.tag = "Ok" THEN res ELSE Err("InternalError", res.err))

\* Look the opener's key pair up and open the dealing, mapping the errors.
open_dealing_opened(f, store) ==
  LET a == f.args
      keyset == mega_keyset_from_sks(store, a.opener_key_id)
  IN IF keyset.tag = "Err"
     THEN IF keyset.err = "PrivateKeyNotFound"
          THEN Returned(f, Err("PrivateKeyNotFound", [key_id |-> a.opener_key_id]))
          ELSE Returned(f, Err("InternalError", keyset.err))
     ELSE LET res == open_dealing(a.dealing, a.context_data, a.dealer_index, a.opener_index, keyset.val.private_key, keyset.val.public_key)
          IN Returned(LibCalled([f EXCEPT !.keyset = Some(keyset.val)], "open_dealing", a, res), IF res.tag = "Ok" THEN res ELSE Err("InternalError", res.err))

idkg_open_dealing_keyset(t) ==
  /\ Alive
  /\ frame[t].pc = "od_keyset"
  /\ sks_lock' = ReadUnlocked(sks_lock, t)
  /\ frame' = [frame EXCEPT ![t] = open_dealing_opened(frame[t], sks)]
  /\ UNCHANGED <<sks, canister_sks, csprng, csprng_lock, canister_sks_lock, prev, sig, csp, retrying>>

idkg_open_dealing(t) ==
  \/ idkg_open_dealing_keyset_lock(t)
  \/ idkg_open_dealing_keyset(t)

----------------------------------------------------------------------------
(* Threshold ECDSA signing: the receivers of a subnet load the five         *)
(* transcripts of a signing round, each produces a signature share, and the *)
(* shares of some of them are combined.                                     *)

Receivers == {0, 1, 2}

MessageHashes == {"abab", "cdcd"}

\* The transcripts of a round, in the order a receiver loads them (the
\* products after their factors).
QuintupleOrder == <<"key", "kappa_unmasked", "lambda_masked", "kappa_times_lambda", "key_times_lambda">>

SigTranscript(name) == [id |-> name, combined_commitment |-> name]

\* The commitments receiver-side openings exist for after `loaded` loads.
LoadedCommitments(loaded) == {SigTranscript(QuintupleOrder[i]).combined_commitment : i \in 1..loaded}

\* The public key a key transcript commits to.
public_key_of(key_transcript) == <<"ecdsa_public_key", key_transcript.combined_commitment>>

\* The vault's share generation: the primitive library signs with this
\* node's openings of the five transcripts' commitments.
vault_ecdsa_sign_share(openings, signer, derivation_path, hashed_message, nonce, key, kappa_unmasked, lambda_masked, kappa_times_lambda, key_times_lambda, algorithm_id) ==
  LET needed == {key.combined_commitment, kappa_unmasked.combined_commitment, lambda_masked.combined_commitment, kappa_times_lambda.combined_commitment, key_times_lambda.combined_commitment}
  IN IF needed \subseteq openings
     THEN Ok([signer |-> signer, derivation_path |-> derivation_path, hashed_message |-> hashed_message, nonce |-> nonce, key |-> key.combined_commitment, kappa_unmasked |-> kappa_unmasked.combined_commitment])
     ELSE Err("SecretSharesNotFound", [commitment_string |-> CHOOSE c \in needed : c \notin openings])

\* Csp::ecdsa_sign_share, by the node `signer` whose vault holds `openings`.
ecdsa_sign_share(openings, signer, derivation_path, hashed_message, nonce, key, kappa_unmasked, lambda_masked, kappa_times_lambda, key_times_lambda, algorithm_id) ==
  vault_ecdsa_sign_share(openings, signer, derivation_path, hashed_message, nonce, key, kappa_unmasked, lambda_masked, kappa_times_lambda, key_times_lambda, algorithm_id)

\* A share fits the round it is combined in.
ShareFits(share, derivation_path, hashed_message, nonce, key_transcript, kappa_unmasked) ==
  /\ share.derivation_path = derivation_path /\ share.hashed_message = hashed_message /\ share.nonce = nonce
  /\ share.key = key_transcript.combined_commitment /\ share.kappa_unmasked = kappa_unmasked.combined_commitment

\* The primitive library's combination: a signature under the key
\* transcript's key, or an error if the shares are too few or do not fit.
tecdsa_combine_sig_shares(derivation_path, hashed_message, nonce, key_transcript, kappa_unmasked, reconstruction_threshold, sig_shares, algorithm_id) ==
  IF Cardinality(DOMAIN sig_shares) < reconstruction_threshold THEN Err("InsufficientShares", "")
  ELSE IF \E i \in DOMAIN sig_shares : ~ShareFits(sig_shares[i], derivation_path, hashed_message, nonce, key_transcript, kappa_unmasked) THEN Err("InconsistentShares", "")
  ELSE Ok([public_key |-> public_key_of(key_transcript), hashed_message |-> hashed_message, r |-> <<kappa_unmasked.combined_commitment, nonce>>])

\* Mutant: the key and kappa transcripts are handed over in the wrong order.
ecdsa_combine_sig_shares_swapped(derivation_path, hashed_message, nonce, key_transcript, kappa_unmasked, reconstruction_threshold, sig_shares, algorithm_id) ==
  LET res == tecdsa_combine_sig_shares(derivation_path, hashed_message, nonce, kappa_unmasked, key_transcript, reconstruction_threshold, sig_shares, algorithm_id)
  IN IF res.tag = "Ok" THEN res ELSE Err("InternalError", res.err)

\* Csp::ecdsa_combine_sig_shares
ecdsa_combine_sig_shares(derivation_path, hashed_message, nonce, key_transcript, kappa_unmasked, reconstruction_threshold, sig_shares, algorithm_id) ==
  LET res == tecdsa_combine_sig_shares(derivation_path, hashed_message, nonce, key_transcript, kappa_unmasked, reconstruction_threshold, sig_shares, algorithm_id)
  IN IF res.tag = "Ok" THEN res ELSE Err("InternalError", res.err)

\* secp.verify(&message, signature, public_key).is_ok()
verify_signature(message_hash, public_key, signature) == signature.public_key = public_key /\ signature.hashed_message = message_hash

NoSigning == [phase |-> "idle", threshold |-> 0, hashed_message |-> "", loaded |-> [r \in Receivers |-> 0], shares |-> [r \in Receivers |-> None], signers |-> {}, combined |-> None]

vault_vars == <<sks, canister_sks, csprng, csprng_lock, sks_lock, canister_sks_lock, frame, prev>>

\* A signing round for message_hash starts on a subnet with the given threshold.
sign_with_ecdsa(reconstruction_threshold, message_hash) ==
  /\ sig.phase = "idle"
  /\ sig' = [NoSigning EXCEPT !.phase = "signing", !.threshold = reconstruction_threshold, !.hashed_message = message_hash]
  /\ UNCHANGED <<vault_vars, csp, retrying>>

\* Receiver r loads the next transcript of the round; its opening is stored.
receiver_load_transcript(r) ==
  /\ sig.phase = "signing"
  /\ sig.loaded[r] < Len(QuintupleOrder)
  /\ sig' = [sig EXCEPT !.loaded[r] = @ + 1]
  /\ UNCHANGED <<vault_vars, csp, retrying>>

\* The receivers that hold a signature share.
Signers == {r \in Receivers : sig.shares[r].some /\ sig.shares[r].val.tag = "Ok"}

\* Receiver r produces (or fails to produce) its signature share.
receiver_sign_share(r) ==
  /\ sig.phase = "signing"
  /\ r \notin Signers
  /\ sig' = [sig EXCEPT !.shares[r] = Some(ecdsa_sign_share(LoadedCommitments(sig.loaded[r]), r, "path", sig.hashed_message, "nonce", SigTranscript("key"), SigTranscript("kappa_unmasked"), SigTranscript("lambda_masked"), SigTranscript("kappa_times_lambda"), SigTranscript("key_times_lambda"), "ThresholdEcdsaSecp256k1"))]
  /\ UNCHANGED <<vault_vars, csp, retrying>>

\* The shares of the receivers in `signers` are combined.
combine_sig_shares(signers) ==
  /\ sig.phase = "signing"
  /\ signers \subseteq Signers
  /\ sig' = [sig EXCEPT !.signers = signers, !.combined = Some(ecdsa_combine_sig_shares("path", sig.hashed_message, "nonce", SigTranscript("key"), SigTranscript("kappa_unmasked"), sig.threshold, [r \in signers |-> sig.shares[r].val.val], "ThresholdEcdsaSecp256k1"))]
  /\ UNCHANGED <<vault_vars, csp, retrying>>

----------------------------------------------------------------------------
(* Callers *)

Requests ==
  {[op |-> "idkg_create_dealing", args |-> a] : a \in CreateDealingArgs}
  \cup {[op |-> "idkg_load_transcript", args |-> a] : a \in LoadTranscriptArgs}
  \cup {[op |-> "idkg_load_transcript_with_openings", args |-> a] : a \in LoadWithOpeningsArgs}
  \cup {[op |-> "idkg_gen_mega_key_pair", args |-> a] : a \in GenMegaKeyPairArgs}
  \cup {[op |-> "idkg_open_dealing", args |-> a] : a \in OpenDealingArgs}

\* The requests the concurrent callers draw from: well-formed inputs, the
\* first key pair, and the operations that share commitment c1.
FirstKeyId == mega_key_id(gen_keypair("K256", 0).public_key)

ConcurrentRequests ==
  {r \in Requests :
     \/ /\ r.op = "idkg_create_dealing"
        /\ r.args.algorithm_id = "ThresholdEcdsaSecp256k1"
        /\ r.args.transcript_operation \in {[kind |-> "Random"], [kind |-> "ReshareOfUnmasked", commitment |-> "c1"], [kind |-> "UnmaskedTimesMasked", commitment_1 |-> "c1", commitment_2 |-> "c2"]}
     \/ /\ r.op = "idkg_load_transcript"
        /\ r.args.key_id = FirstKeyId
        /\ r.args.dealings # "malformed"
     \/ /\ r.op = "idkg_load_transcript_with_openings"
        /\ r.args.key_id = FirstKeyId
        /\ r.args.openings # "malformed"
        /\ r.args.transcript.combined_commitment = "c1"
     \/ /\ r.op = "idkg_gen_mega_key_pair"
        /\ r.args.algorithm_id = "ThresholdEcdsaSecp256k1"
     \/ /\ r.op = "idkg_open_dealing"
        /\ r.args.opener_key_id = FirstKeyId
        /\ r.args.dealing = "consistent"}

MayDraw(op) == op \in {"idkg_create_dealing", "idkg_load_transcript", "idkg_gen_mega_key_pair"}

\* What is remembered of a call that has returned.
Summary(f) == [op |-> f.op, args |-> f.args, result |-> f.result, lib |-> f.lib, writes |-> f.writes]

\* Thread t calls into the vault; with `record` the call it returned from
\* before is remembered in prev.
Call(t, req, record) ==
  /\ Alive
  /\ ~Running(t)
  /\ MayDraw(req.op) => csprng + Reserved < MaxDraws
  /\ frame' = [frame EXCEPT ![t] = NewFrame(req.op, req.args)]
  /\ prev' = IF record THEN [prev EXCEPT ![t] = Summary(frame[t])] ELSE prev
  /\ UNCHANGED <<sks, canister_sks, csprng, csprng_lock, sks_lock, canister_sks_lock, sig, csp, retrying>>

Step(t) ==
  \/ idkg_create_dealing(t)
  \/ idkg_load_transcript(t)
  \/ idkg_load_transcript_with_openings(t)
  \/ idkg_gen_mega_key_pair(t)
  \/ idkg_open_dealing(t)

----------------------------------------------------------------------------
(* Facade (Csp): the protocol surface over the vault and the library *)

\* The dealers whose verified dealings a transcript is created from.
Dealers == {0, 1}

\* Library: the transcript a set of verified dealings combines to.
tecdsa_create_transcript(algorithm_id, reconstruction_threshold, verified_dealings, operation_mode) ==
  IF algorithm_id # "ThresholdEcdsaSecp256k1" THEN Err("UnsupportedAlgorithm", algorithm_id)
  ELSE IF Cardinality(verified_dealings) < reconstruction_threshold THEN Err("InsufficientDealings", "")
  ELSE Ok([combined_commitment |-> <<"combined", verified_dealings, operation_mode>>, threshold |-> reconstruction_threshold])

\* Library: a transcript verifies if it is the one the dealings combine to.
tecdsa_verify_transcript(transcript, algorithm_id, reconstruction_threshold, verified_dealings, operation_mode) ==
  LET expected == tecdsa_create_transcript(algorithm_id, reconstruction_threshold, verified_dealings, operation_mode)
  IN IF expected.tag = "Err" THEN expected
     ELSE IF transcript = expected.val THEN Ok(<<>>)
     ELSE Err("InconsistentCommitments", "")

\* Library: a complaint verifies if it is the complainer's, about this
\* dealing, and the dealing is indeed faulty.
tecdsa_verify_complaint(complaint, complainer_index, complainer_key, dealing, dealer_index, context_data) ==
  IF /\ complaint.complainer = complainer_index /\ complaint.public_key = complainer_key
     /\ complaint.context_data = context_data /\ complaint.dealings = dealing /\ dealing = "inconsistent"
  THEN Ok(<<>>)
  ELSE Err("InvalidComplaint", "")

\* From<IDkgVerifyTranscriptInternalError> for IDkgVerifyTranscriptError
IDkgVerifyTranscriptError_from(e) == Err("InvalidTranscript", e.err)

\* From<IDkgVerifyComplaintInternalError> for IDkgVerifyComplaintError
IDkgVerifyComplaintError_from(e) == Err(e.err, "")

\* Mutant: the transcript is salted with the CSPRNG's position.
Csp_idkg_create_transcript_salted(algorithm_id, reconstruction_threshold, verified_dealings, operation_mode) ==
  LET res == tecdsa_create_transcript(algorithm_id, reconstruction_threshold, verified_dealings, operation_mode)
  IN IF res.tag = "Ok" THEN Ok([res.val EXCEPT !.threshold = @ + csprng]) ELSE Err("InternalError", res.err)

Csp_idkg_create_transcript(algorithm_id, reconstruction_threshold, verified_dealings, operation_mode) ==
  LET res == tecdsa_create_transcript(algorithm_id, reconstruction_threshold, verified_dealings, operation_mode)
  IN IF res.tag = "Ok" THEN res ELSE Err("InternalError", res.err)

Csp_idkg_verify_transcript(transcript, algorithm_id, reconstruction_threshold, verified_dealings, operation_mode) ==
  LET res == tecdsa_verify_transcript(transcript, algorithm_id, reconstruction_threshold, verified_dealings, operation_mode)
  IN IF res.tag = "Ok" THEN Ok(res.val) ELSE IDkgVerifyTranscriptError_from(res)

Csp_idkg_verify_complaint(complaint, complainer_index, complainer_key, dealing, dealer_index, context_data) ==
  LET res == tecdsa_verify_complaint(complaint, complainer_index, complainer_key, dealing, dealer_index, context_data)
  IN IF res.tag = "Ok" THEN Ok(res.val) ELSE IDkgVerifyComplaintError_from(res)

\* The secret-dependent calls: the facade resolves a public key to the
\* identifier of its key pair and hands the call to the vault.
Csp_idkg_create_dealing(algorithm_id, context_data, dealer_index, reconstruction_threshold, receiver_keys, transcript_operation) ==
  [op |-> "idkg_create_dealing", args |-> [algorithm_id |-> algorithm_id, context_data |-> context_data, dealer_index |-> dealer_index, reconstruction_threshold |-> reconstruction_threshold, receiver_keys |-> receiver_keys, transcript_operation |-> transcript_operation]]

Csp_idkg_load_transcript(dealings, context_data, receiver_index, public_key, transcript) ==
  LET key_id == mega_key_id(public_key)
  IN [op |-> "idkg_load_transcript", args |-> [dealings |-> dealings, context_data |-> context_data, receiver_index |-> receiver_index, key_id |-> key_id, transcript |-> transcript]]

Csp_idkg_load_transcript_with_openings(dealings, openings, context_data, receiver_index, public_key, transcript) ==
  LET key_id == mega_key_id(public_key)
  IN [op |-> "idkg_load_transcript_with_openings", args |-> [dealings |-> dealings, openings |-> openings, context_data |-> context_data, receiver_index |-> receiver_index, key_id |-> key_id, transcript |-> transcript]]

Csp_idkg_create_mega_key_pair(algorithm_id) ==
  [op |-> "idkg_gen_mega_key_pair", args |-> [algorithm_id |-> algorithm_id]]

\* Mutant: the opener's key pair is looked up under the dealer's first
\* receiver key.
Csp_idkg_open_dealing_first_key(dealing, dealer_index, context_data, opener_index, opener_public_key) ==
  LET opener_key_id == mega_key_id(gen_keypair("K256", 0).public_key)
  IN [op |-> "idkg_open_dealing", args |-> [dealing |-> dealing, dealer_index |-> dealer_index, context_data |-> context_data, opener_index |-> opener_index, opener_key_id |-> opener_key_id]]

Csp_idkg_open_dealing(dealing, dealer_index, context_data, opener_index, opener_public_key) ==
  LET opener_key_id == mega_key_id(opener_public_key)
  IN [op |-> "idkg_open_dealing", args |-> [dealing |-> dealing, dealer_index |-> dealer_index, context_data |-> context_data, opener_index |-> opener_index, opener_key_id |-> opener_key_id]]

\* The vault call a request to the facade is handed on as.
CspVaultCall(req) ==
  LET a == req.args
  IN CASE req.op = "idkg_create_dealing" -> Csp_idkg_create_dealing(a.algorithm_id, a.context_data, a.dealer_index, a.reconstruction_threshold, a.receiver_keys, a.transcript_operation)
       [] req.op = "idkg_load_transcript" -> Csp_idkg_load_transcript(a.dealings, a.context_data, a.receiver_index, a.public_key, a.transcript)
       [] req.op = "idkg_load_transcript_with_openings" -> Csp_idkg_load_transcript_with_openings(a.dealings, a.openings, a.context_data, a.receiver_index, a.public_key, a.transcript)
       [] req.op = "idkg_create_mega_key_pair" -> Csp_idkg_create_mega_key_pair(a.algorithm_id)
       [] req.op = "idkg_open_dealing" -> Csp_idkg_open_dealing(a.dealing, a.dealer_index, a.context_data, a.opener_index, a.opener_public_key)

\* The result of a request the facade answers from the library alone.
CspStatelessResult(req) ==
  LET a == req.args
  IN CASE req.op = "idkg_create_transcript" -> Csp_idkg_create_transcript(a.algorithm_id, a.reconstruction_threshold, a.verified_dealings, a.operation_mode)
       [] req.op = "idkg_verify_transcript" -> Csp_idkg_verify_transcript(a.transcript, a.algorithm_id, a.reconstruction_threshold, a.verified_dealings, a.operation_mode)
       [] req.op = "idkg_verify_complaint" -> Csp_idkg_verify_complaint(a.complaint, a.complainer_index, a.complainer_key, a.dealing, a.dealer_index, a.context_data)
       [] req.op = "ecdsa_combine_sig_shares" -> ecdsa_combine_sig_shares(a.derivation_path, a.hashed_message, a.nonce, a.key_transcript, a.kappa_unmasked, a.reconstruction_threshold, a.sig_shares, a.algorithm_id)

NoCall == [op |-> "idle", args |-> None, result |-> None]

\* The engine state a stateless call was made in.
EngineState == [sks |-> sks, canister_sks |-> canister_sks, csprng |-> csprng]

NoCsp == [call |-> [t \in Threads |-> NoCall], stateless |-> [call |-> NoCall, at |-> None], keys |-> {}, loaded |-> {}, failed |-> {}]

\* Thread t is inside a call to the facade.
CspPending(t) == csp.call[t].op # "idle" /\ ~csp.call[t].result.some

\* Thread t calls a secret-dependent operation of the facade, which enters
\* the vault on its behalf.
Csp_call(t, req) ==
  /\ Alive
  /\ ~Running(t) /\ ~CspPending(t)
  /\ LET v == CspVaultCall(req)
     IN /\ MayDraw(v.op) => csprng + Reserved < MaxDraws
        /\ frame' = [frame EXCEPT ![t] = NewFrame(v.op, v.args)]
  /\ csp' = [csp EXCEPT !.call[t] = [op |-> req.op, args |-> req.args, result |-> None]]
  /\ UNCHANGED <<sks, canister_sks, csprng, csprng_lock, sks_lock, canister_sks_lock, prev, sig, retrying>>

\* Mutant: the facade reports every error of the vault as an internal error.
Csp_return_flattened(t) ==
  /\ Alive
  /\ CspPending(t) /\ frame[t].pc = "done"
  /\ LET res == frame[t].result.val
         pk == csp.call[t].op = "idkg_create_mega_key_pair" /\ res.tag = "Ok"
         load == csp.call[t].op \in {"idkg_load_transcript", "idkg_load_transcript_with_openings"}
         loaded == load /\ res.tag = "Ok" /\ (csp.call[t].op = "idkg_load_transcript" => res.val = {})
         commitment == csp.call[t].args.transcript.combined_commitment
     IN csp' = [csp EXCEPT !.call[t].result = IF res.tag = "Ok" THEN Some(res) ELSE Some(Err("InternalError", res.detail)),
                           !.keys = IF pk THEN @ \cup {res.val} ELSE @,
                           !.loaded = IF loaded THEN @ \cup {commitment} ELSE @,
                           !.failed = IF load /\ ~loaded THEN @ \cup {commitment} ELSE @]
  /\ UNCHANGED <<sks, canister_sks, csprng, csprng_lock, sks_lock, canister_sks_lock, frame, prev, sig, retrying>>

\* The vault's result is the facade's; a public key returned by key
\* generation is from now on known to the caller, and so is whether a load
\* succeeded or returned complaints or an error.
Csp_return(t) ==
  /\ Alive
  /\ CspPending(t) /\ frame[t].pc = "done"
  /\ LET res == frame[t].result.val
         pk == csp.call[t].op = "idkg_create_mega_key_pair" /\ res.tag = "Ok"
         load == csp.call[t].op \in {"idkg_load_transcript", "idkg_load_transcript_with_openings"}
         loaded == load /\ res.tag = "Ok" /\ (csp.call[t].op = "idkg_load_transcript" => res.val = {})
         commitment == csp.call[t].args.transcript.combined_commitment
     IN csp' = [csp EXCEPT !.call[t].result = Some(res),
                           !.keys = IF pk THEN @ \cup {res.val} ELSE @,
                           !.loaded = IF loaded THEN @ \cup {commitment} ELSE @,
                           !.failed = IF load /\ ~loaded THEN @ \cup {commitment} ELSE @]
  /\ UNCHANGED <<sks, canister_sks, csprng, csprng_lock, sks_lock, canister_sks_lock, frame, prev, sig, retrying>>

\* Thread t calls an operation the facade answers from the library alone;
\* the first of a run of calls with the same arguments is remembered, with the
\* engine state it was made in.
Csp_stateless_call(t, req) ==
  /\ Alive
  /\ ~Running(t) /\ ~CspPending(t)
  /\ LET call == [op |-> req.op, args |-> req.args, result |-> Some(CspStatelessResult(req))]
         repeated == csp.stateless.call.op = req.op /\ csp.stateless.call.args = req.args
     IN csp' = [csp EXCEPT !.call[t] = call,
                           !.stateless = IF repeated THEN @ ELSE [call |-> call, at |-> Some(EngineState)]]
  /\ UNCHANGED <<sks, canister_sks, csprng, csprng_lock, sks_lock, canister_sks_lock, frame, prev, sig, retrying>>

----------------------------------------------------------------------------
(* Test context: retry *)

\* Seconds.
RETRY_TIMEOUT == 90

RETRY_BACKOFF == 5

READY_RESPONSE_TIMEOUT == 6

\* The timeouts and backoffs retry is called with, and how long a call of f
\* and a sleep may take beyond the backoff.
Timeouts == {0, RETRY_TIMEOUT}

Backoffs == {2, RETRY_BACKOFF}

Latencies == {0, READY_RESPONSE_TIMEOUT}

Oversleeps == {0, 1}

NoRetry == [pc |-> "idle", timeout |-> 0, backoff |-> 0, attempt |-> 0, start |-> 0, now |-> 0, calls |-> 0, slept |-> 0, last |-> None, result |-> None]

\* e.context(format!("Timed out! Last error: {}", err_msg))
TimedOut(e) == [context |-> <<"Timed out! Last error: ", e.msg>>, source |-> e]

\* retry is entered: attempt = 1, start = Instant::now().
retry(timeout, backoff) ==
  /\ retrying.pc = "idle"
  /\ retrying' = [retrying EXCEPT !.pc = "loop", !.timeout = timeout, !.backoff = backoff, !.attempt = 1, !.start = retrying.now]
  /\ UNCHANGED <<vault_vars, sig, csp>>

\* await_status_is_healthy: retry with the context's timeout and backoff.
await_status_is_healthy == retry(RETRY_TIMEOUT, RETRY_BACKOFF)

\* Mutant: the loop gives up as soon as the timeout is reached.
retry_matched_inclusive(r, res) ==
  IF res.tag = "Ok" THEN [r EXCEPT !.pc = "done", !.result = Some(res)]
  ELSE IF r.now - r.start >= r.timeout
       THEN [r EXCEPT !.pc = "done", !.last = Some(res.err), !.result = Some([tag |-> "Err", err |-> TimedOut(res.err)])]
       ELSE [r EXCEPT !.pc = "sleep", !.last = Some(res.err)]

\* The match on f's result res, r.now being the time f returned at.
retry_matched(r, res) ==
  IF res.tag = "Ok" THEN [r EXCEPT !.pc = "done", !.result = Some(res)]
  ELSE IF r.now - r.start > r.timeout
       THEN [r EXCEPT !.pc = "done", !.last = Some(res.err), !.result = Some([tag |-> "Err", err |-> TimedOut(res.err)])]
       ELSE [r EXCEPT !.pc = "sleep", !.last = Some(res.err)]

\* One pass of the loop: f is called, takes some time, and succeeds or fails.
retry_attempt ==
  /\ retrying.pc = "loop"
  /\ \E latency \in Latencies, ok \in BOOLEAN, msg \in {"Not ready!", "Could not fetch status"} :
       LET n == retrying.calls + 1
           res == IF ok THEN [tag |-> "Ok", val |-> <<"value", n>>] ELSE [tag |-> "Err", err |-> [msg |-> msg, call |-> n]]
       IN retrying' = retry_matched([retrying EXCEPT !.now = @ + latency, !.calls = n], res)
  /\ UNCHANGED <<vault_vars, sig, csp>>

\* std::thread::sleep(backoff); attempt += 1
retry_sleep ==
  /\ retrying.pc = "sleep"
  /\ \E over \in Oversleeps :
       retrying' = [retrying EXCEPT !.pc = "loop", !.now = @ + retrying.backoff + over, !.slept = @ + 1, !.attempt = @ + 1]
  /\ UNCHANGED <<vault_vars, sig, csp>>

Init ==
  /\ sks = EmptyStore
  /\ canister_sks = EmptyStore
  /\ csprng = 0
  /\ csprng_lock = FreeLock
  /\ sks_lock = FreeLock
  /\ canister_sks_lock = FreeLock
  /\ frame = [t \in Threads |-> IdleFrame]
  /\ prev = [t \in Threads |-> Summary(IdleFrame)]
  /\ sig = NoSigning
  /\ csp = NoCsp
  /\ retrying = NoRetry

\* Several threads calling into the vault concurrently.
Next ==
  \E t \in Threads :
    \/ \E req \in ConcurrentRequests : Call(t, req, FALSE)
    \/ Step(t)

Spec == Init /\ [][Next]_vars

\* The concurrent callers under a fair scheduler: a thread whose next step
\* is possible again and again (a lock it waits for is free again and
\* again, a library call it is in terminates) eventually takes it.
\* Their requests: one of each operation on transcript T1 and the first key
\* pair, enough for every lock to be contended.
FairRequests ==
  {r \in Requests :
     \/ /\ r.op = "idkg_create_dealing"
        /\ r.args.algorithm_id = "ThresholdEcdsaSecp256k1"
        /\ r.args.transcript_operation = [kind |-> "UnmaskedTimesMasked", commitment_1 |-> "c1", commitment_2 |-> "c1"]
     \/ /\ r.op = "idkg_load_transcript"
        /\ r.args.key_id = FirstKeyId
        /\ r.args.dealings # "malformed"
        /\ r.args.transcript.id = "T1"
     \/ /\ r.op = "idkg_load_transcript_with_openings"
        /\ r.args.key_id = FirstKeyId
        /\ r.args.openings = "valid"
        /\ r.args.transcript.id = "T1"
     \/ /\ r.op = "idkg_gen_mega_key_pair"
        /\ r.args.algorithm_id = "ThresholdEcdsaSecp256k1"
     \/ /\ r.op = "idkg_open_dealing"
        /\ r.args.opener_key_id = FirstKeyId
        /\ r.args.dealing = "consistent"}

NextFair ==
  \E t \in Threads :
    \/ \E req \in FairRequests : Call(t, req, FALSE)
    \/ Step(t)

FairSpec == Init /\ [][NextFair]_vars /\ \A t \in Threads : SF_vars(Step(t))

\* One caller making one call after another, remembering the previous one.
NextSeq ==
  \/ \E req \in Requests : Call("t1", req, TRUE)
  \/ Step("t1")

SeqSpec == Init /\ [][NextSeq]_vars

\* A subnet running signing rounds.
SignNext ==
  \/ \E t \in 1..Cardinality(Receivers), h \in MessageHashes : sign_with_ecdsa(t, h)
  \/ \E r \in Receivers : receiver_load_transcript(r)
  \/ \E r \in Receivers : receiver_sign_share(r)
  \/ \E signers \in SUBSET Receivers : combine_sig_shares(signers)

SignSpec == Init /\ [][SignNext]_vars

\* The requests made of the facade: for the vault, one of each operation on
\* transcript T1 with either public key; for the library, a pair of
\* arguments for each operation, one it accepts and one it rejects.
CspRequests ==
  {[op |-> "idkg_create_dealing", args |-> a] : a \in {x \in CreateDealingArgs : x.algorithm_id = "ThresholdEcdsaSecp256k1" /\ x.transcript_operation \in {[kind |-> "Random"], [kind |-> "ReshareOfMasked", commitment |-> "c2"], [kind |-> "UnmaskedTimesMasked", commitment_1 |-> "c1", commitment_2 |-> "c1"]}}}
  \cup {[op |-> "idkg_load_transcript", args |-> a] : a \in [dealings : {"consistent", "inconsistent"}, context_data : Contexts, receiver_index : ReceiverIndices, public_key : PublicKeys, transcript : {t \in Transcripts : t.id = "T1"}]}
  \cup {[op |-> "idkg_load_transcript_with_openings", args |-> a] : a \in [dealings : {"inconsistent"}, openings : {"valid"}, context_data : Contexts, receiver_index : ReceiverIndices, public_key : PublicKeys, transcript : {t \in Transcripts : t.id = "T1"}]}
  \cup {[op |-> "idkg_create_mega_key_pair", args |-> a] : a \in GenMegaKeyPairArgs}
  \cup {[op |-> "idkg_open_dealing", args |-> a] : a \in [dealing : {"consistent"}, dealer_index : DealerIndices, context_data : Contexts, opener_index : ReceiverIndices, opener_public_key : PublicKeys]}

FirstKeyPair == gen_keypair("K256", 0)

FirstShare == ecdsa_sign_share(LoadedCommitments(Len(QuintupleOrder)), 0, "path", "abab", "nonce", SigTranscript("key"), SigTranscript("kappa_unmasked"), SigTranscript("lambda_masked"), SigTranscript("kappa_times_lambda"), SigTranscript("key_times_lambda"), "ThresholdEcdsaSecp256k1").val

CspStatelessRequests ==
  {[op |-> "idkg_create_transcript", args |-> a] : a \in [algorithm_id : {"ThresholdEcdsaSecp256k1"}, reconstruction_threshold : {2}, verified_dealings : {{0}, Dealers}, operation_mode : {[kind |-> "Random"]}]}
  \cup {[op |-> "idkg_verify_transcript", args |-> a] : a \in [transcript : {tecdsa_create_transcript("ThresholdEcdsaSecp256k1", 2, Dealers, [kind |-> "Random"]).val}, algorithm_id : {"ThresholdEcdsaSecp256k1"}, reconstruction_threshold : {2}, verified_dealings : {Dealers}, operation_mode : {[kind |-> "Random"], [kind |-> "ReshareOfMasked", commitment |-> "c1"]}]}
  \cup {[op |-> "idkg_verify_complaint", args |-> a] : a \in [complaint : {generate_complaints("inconsistent", "ctx", 0, FirstKeyPair.private_key, FirstKeyPair.public_key, Seed_from_rng(0))}, complainer_index : ReceiverIndices, complainer_key : PublicKeys, dealing : {"inconsistent"}, dealer_index : DealerIndices, context_data : Contexts]}
  \cup {[op |-> "ecdsa_combine_sig_shares", args |-> a] : a \in [derivation_path : {"path"}, hashed_message : {"abab"}, nonce : {"nonce"}, key_transcript : {SigTranscript("key")}, kappa_unmasked : {SigTranscript("kappa_unmasked")}, reconstruction_threshold : {1, 2}, sig_shares : {[r \in {0} |-> FirstShare]}, algorithm_id : {"ThresholdEcdsaSecp256k1"}]}

\* One caller of the facade making one call after another.
CspNext ==
  \/ \E req \in CspRequests : Csp_call("t1", req)
  \/ Step("t1")
  \/ Csp_return("t1")
  \/ \E req \in CspStatelessRequests : Csp_stateless_call("t1", req)

CspSpec == Init /\ [][CspNext]_vars

\* A test waiting for a node, or for anything else, with retry.
RetryNext ==
  \/ await_status_is_healthy
  \/ \E timeout \in Timeouts, backoff \in Backoffs : retry(timeout, backoff)
  \/ retry_attempt
  \/ retry_sleep

RetrySpec == Init /\ [][RetryNext]_vars

----------------------------------------------------------------------------
(* Properties *)

\* The canister store's identifiers that hold an opening of commitment c.
StoredOpenings(c) == {k \in DOMAIN canister_sks : canister_sks[k].kind = "IDkgCommitmentOpening" /\ canister_sks[k].bytes[2].commitment = c}

IsLoad(f) == f.op \in {"idkg_load_transcript", "idkg_load_transcript_with_openings"}

\* The call summarised by p computed and serialised this node's share.
ComputedShare(p) == p.lib # <<>> /\ p.lib[1].res.tag = "Ok" /\ p.result # Some(Err("SerializationError", "opening"))

\* C1: a caller that loads the same transcript twice in a row (same dealings,
\* receiver index and key, the library computing the share the first time)
\* gets an empty complaint set both times; exactly one opening is stored for
\* the commitment, and the second call neither calls the library nor writes.
C1_IdempotentLoad ==
  LET p == prev["t1"]
      f == frame["t1"]
  IN (p.op = "idkg_load_transcript" /\ ComputedShare(p))
     => /\ p.result = Some(Ok({}))
        /\ Cardinality(StoredOpenings(p.args.transcript.combined_commitment)) = 1
        /\ (f.op = "idkg_load_transcript" /\ f.args = p.args /\ f.pc = "done")
             => (f.result = Some(Ok({})) /\ f.lib = <<>> /\ f.writes = 0)

C1_Witness ==
  LET p == prev["t1"]
      f == frame["t1"]
  IN /\ p.op = "idkg_load_transcript" /\ ComputedShare(p)
     /\ f.op = "idkg_load_transcript" /\ f.args = p.args /\ f.pc = "done"

\* A load of thread t that got past the "already stored" check and computed an opening.
ComputedOpening(t) == IsLoad(frame[t]) /\ frame[t].opening.some

C3_OneOpeningPerCommitment == \A c \in Commitments : Cardinality(StoredOpenings(c)) <= 1

C3_Witness ==
  /\ Cardinality(StoredOpenings("c1")) = 1 /\ Cardinality(StoredOpenings("c2")) = 1
  /\ \E t \in Threads, u \in Threads :
       /\ t # u
       /\ frame[t].pc = "done" /\ frame[u].pc = "done"
       /\ frame[t].op = "idkg_load_transcript" /\ frame[u].op = "idkg_load_transcript"
       /\ frame[t].writes = 1 /\ frame[u].writes = 1
       /\ frame[t].args.transcript.id = "T1" /\ frame[u].args.transcript.id = "T2"

\* C4: two distinct transcripts with the same combined commitment have the
\* same opening store identifier, and once one is loaded, loading the other
\* returns an empty complaint set without computing or writing anything.
C4_ContentAddressing ==
  LET p == prev["t1"]
      f == frame["t1"]
  IN (/\ p.op = "idkg_load_transcript" /\ p.result = Some(Ok({}))
      /\ f.op = "idkg_load_transcript" /\ f.pc = "done"
      /\ f.args.transcript # p.args.transcript
      /\ f.args.transcript.combined_commitment = p.args.transcript.combined_commitment)
     => /\ opening_key_id(f.args.transcript) = opening_key_id(p.args.transcript)
        /\ f.result = Some(Ok({})) /\ f.lib = <<>> /\ f.writes = 0
        /\ opening_key_id(p.args.transcript) \in DOMAIN canister_sks

C4_Witness ==
  LET p == prev["t1"]
      f == frame["t1"]
  IN /\ p.op = "idkg_load_transcript" /\ p.result = Some(Ok({})) /\ p.writes = 1
     /\ f.op = "idkg_load_transcript" /\ f.pc = "done"
     /\ f.args.transcript # p.args.transcript
     /\ f.args.transcript.combined_commitment = p.args.transcript.combined_commitment

\* The commitments whose openings a transcript operation needs.
Referenced(op) ==
  IF op.kind = "Random" THEN {}
  ELSE IF op.kind = "UnmaskedTimesMasked" THEN {op.commitment_1, op.commitment_2}
  ELSE {op.commitment}

\* Those of them that have no opening in the canister store.
Missing(op) == {c \in Referenced(op) : commitment_opening_from_sks(canister_sks, c).tag = "Err"}

\* C5: creating a dealing for ReshareOfUnmasked whose commitment has no stored
\* opening fails with secret-shares-not-found without drawing from the RNG
\* and without writing to a store.
C5_MissingDependencyNoDraw ==
  LET f == frame["t1"]
  IN (/\ f.op = "idkg_create_dealing" /\ f.pc = "done"
      /\ f.args.transcript_operation.kind = "ReshareOfUnmasked"
      /\ Missing(f.args.transcript_operation) # {})
     => /\ f.result.val.tag = "Err" /\ f.result.val.err = "SecretSharesNotFound"
        /\ f.draws = 0 /\ f.writes = 0

\* C6: a dealing creation that references an opening absent from the canister
\* store returns secret-shares-not-found naming a missing commitment and
\* makes no library call; the library gets Random shares only for Random.
C6_MissingSharesAreAnError ==
  LET f == frame["t1"]
  IN (f.op = "idkg_create_dealing" /\ f.pc = "done")
     => /\ Missing(f.args.transcript_operation) # {}
             => /\ f.result.val.tag = "Err" /\ f.result.val.err = "SecretSharesNotFound"
                /\ f.result.val.detail.commitment_string \in Missing(f.args.transcript_operation)
                /\ f.lib = <<>>
        /\ \A i \in DOMAIN f.lib :
             (f.lib[i].fn = "create_dealing" /\ f.lib[i].arg.shares = SecretShares_Random)
             => f.args.transcript_operation.kind = "Random"

C6_Witness ==
  LET f == frame["t1"]
  IN /\ f.op = "idkg_create_dealing" /\ f.pc = "done"
     /\ f.args.transcript_operation.kind = "UnmaskedTimesMasked"
     /\ Missing(f.args.transcript_operation) = {f.args.transcript_operation.commitment_2}
     /\ f.args.transcript_operation.commitment_1 # f.args.transcript_operation.commitment_2
     /\ f.result.val.tag = "Err"

\* The library reported inconsistent commitments to the load in frame f.
Inconsistent(f) == f.lib # <<>> /\ f.lib[1].res.tag = "Err" /\ f.lib[1].res.err = "InconsistentCommitments"

\* C7: when the library reports inconsistent commitments to a load, the load
\* returns exactly what complaint generation gives for the call's dealings,
\* context and receiver index, the key pair stored under the call's key id
\* and the seed drawn, and writes to no store.
C7_ComplaintsReturned ==
  LET f == frame["t1"]
      a == f.args
      kp == mega_keyset_from_sks(sks, a.key_id).val
  IN (f.op = "idkg_load_transcript" /\ f.pc = "done" /\ Inconsistent(f))
     => /\ Len(f.lib) = 2 /\ f.lib[2].fn = "generate_complaints"
        /\ f.result = Some(f.lib[2].res)
        /\ f.lib[2].res.tag = "Ok"
             => f.result.val.val = {generate_complaints(a.dealings, a.context_data, a.receiver_index, kp.private_key, kp.public_key, f.seed.val)}
        /\ f.writes = 0

C7_Witness ==
  LET f == frame["t1"]
  IN /\ f.op = "idkg_load_transcript" /\ f.pc = "done" /\ Inconsistent(f)
     /\ f.result.val.tag = "Ok"
     /\ Cardinality(DOMAIN sks) = 2

\* C8: after a load returned complaints for a transcript, a load with openings
\* of that transcript for which the library computes the share succeeds and
\* stores the opening under the commitment's identifier, so that later loads
\* return at the "already stored" check; if the library still reports
\* inconsistency it fails with invalid-arguments and nothing is stored.
C8_ComplaintResolution ==
  LET p == prev["t1"]
      f == frame["t1"]
      c == f.args.transcript.combined_commitment
  IN (/\ p.op = "idkg_load_transcript" /\ p.result.val.tag = "Ok" /\ p.result.val.val # {}
      /\ f.op = "idkg_load_transcript_with_openings" /\ f.pc = "done"
      /\ f.args.transcript = p.args.transcript
      /\ f.lib # <<>>)
     => /\ ComputedShare(f)
             => /\ f.result = Some(Ok("unit"))
                /\ commitment_key_id(c) \in DOMAIN canister_sks
                /\ canister_sks[commitment_key_id(c)] = IDkgCommitmentOpening(CommitmentOpeningBytes(f.lib[1].res.val))
                /\ load_transcript_checked(NewFrame("idkg_load_transcript", p.args), canister_sks).pc = "done"
        /\ Inconsistent(f)
             => /\ f.result.val.tag = "Err" /\ f.result.val.err = "InvalidArguments"
                /\ f.writes = 0
                /\ StoredOpenings(c) = {}

C8_Witness ==
  LET p == prev["t1"]
      f == frame["t1"]
  IN /\ p.op = "idkg_load_transcript" /\ p.result.val.tag = "Ok" /\ p.result.val.val # {}
     /\ f.op = "idkg_load_transcript_with_openings" /\ f.pc = "done"
     /\ f.args.transcript = p.args.transcript
     /\ ComputedShare(f) /\ f.writes = 1

\* C9: a load with openings reports invalid-arguments only for a result that
\* is still inconsistent, never for a library internal error.
C9_InvalidArgumentsReserved ==
  LET f == frame["t1"]
  IN (/\ f.op = "idkg_load_transcript_with_openings" /\ f.pc = "done"
      /\ f.result.val.tag = "Err" /\ f.result.val.err = "InvalidArguments")
     => Inconsistent(f)

\* C10: key generation for an unsupported algorithm fails with the
\* unsupported-algorithm error without an RNG draw or a store write.
C10_UnsupportedBeforeRng ==
  LET f == frame["t1"]
  IN (/\ f.op = "idkg_gen_mega_key_pair" /\ f.pc = "done"
      /\ f.args.algorithm_id # "ThresholdEcdsaSecp256k1")
     => /\ f.result.val.tag = "Err" /\ f.result.val.err = "UnsupportedAlgorithm"
        /\ f.draws = 0 /\ f.writes = 0

IsKeyGen(f) == f.op = "idkg_gen_mega_key_pair"

\* The node store's entry for a key pair the library generated.
KeySetEntry(kp) == MEGaEncryptionK256(MEGaPublicKeyK256Bytes(kp.public_key), MEGaPrivateKeyK256Bytes(kp.private_key))

\* C11: of two successive successful key generations each draws its own
\* seed, the two return different public keys, and the node store holds an
\* entry for each under its own identifier, the first as the first call
\* left it.
C11_GenerationNotIdempotent ==
  LET p == prev["t1"]
      f == frame["t1"]
  IN (/\ IsKeyGen(p) /\ p.result.val.tag = "Ok"
      /\ IsKeyGen(f) /\ f.pc = "done" /\ f.result.val.tag = "Ok")
     => /\ f.draws = 1 /\ Len(p.lib) = 1 /\ Len(f.lib) = 1
        /\ p.lib[1].arg.seed # f.lib[1].arg.seed
        /\ p.result.val.val # f.result.val.val
        /\ mega_key_id(p.result.val.val) # mega_key_id(f.result.val.val)
        /\ {mega_key_id(p.result.val.val), mega_key_id(f.result.val.val)} \subseteq DOMAIN sks
        /\ sks[mega_key_id(p.result.val.val)] = KeySetEntry(p.lib[1].res.val)
        /\ sks[mega_key_id(f.result.val.val)] = KeySetEntry(f.lib[1].res.val)
        /\ p.writes = 1 /\ f.writes = 1

C11_Witness ==
  LET p == prev["t1"]
      f == frame["t1"]
  IN /\ IsKeyGen(p) /\ p.result.val.tag = "Ok"
     /\ IsKeyGen(f) /\ f.pc = "done" /\ f.result.val.tag = "Ok"
     /\ Cardinality(DOMAIN sks) = 2

\* C12: a load (with or without openings) that finds neither an opening for
\* the transcript's commitment nor a key pair under its key id fails with
\* private-key-not-found, having made no library call, no RNG draw and no
\* store write.
C12_MissingKeyPair ==
  LET f == frame["t1"]
  IN (/\ IsLoad(f) /\ f.pc = "done"
      /\ StoredOpenings(f.args.transcript.combined_commitment) = {}
      /\ f.args.key_id \notin DOMAIN sks)
     => /\ f.result.val.tag = "Err" /\ f.result.val.err = "PrivateKeyNotFound"
        /\ f.lib = <<>> /\ f.draws = 0 /\ f.writes = 0

C12_Witness ==
  LET p == prev["t1"]
      f == frame["t1"]
  IN /\ p.op = "idkg_load_transcript" /\ p.result.val.tag = "Err" /\ p.result.val.err = "PrivateKeyNotFound"
     /\ f.op = "idkg_load_transcript_with_openings" /\ f.pc = "done"
     /\ StoredOpenings(f.args.transcript.combined_commitment) = {}
     /\ f.args.key_id \notin DOMAIN sks
     /\ sks # EmptyStore

\* The call in frame f has a successful computation behind it, serialised
\* into the value it is about to store.
ReadyToStore(f) ==
  /\ f.lib # <<>> /\ f.lib[1].res.tag = "Ok"
  /\ IF IsLoad(f) THEN f.opening = Some(CommitmentOpeningBytes(f.lib[1].res.val))
     ELSE IsKeyGen(f) /\ f.keyset = Some(f.lib[1].res.val)

\* The entries of `after` that `before` does not have, or has differently.
Written(before, after) == {k \in DOMAIN after : k \notin DOMAIN before \/ before[k] # after[k]}

\* C13: a step that changes either store is taken by a call that has a
\* successful library computation and serialisation behind it, stores exactly
\* that value and returns success in the same step; so a call that returns
\* an error has changed no store.
C13_WritesFollowComputation ==
  [][(sks' # sks \/ canister_sks' # canister_sks)
       => \E t \in Threads :
            LET f == frame[t]
                g == frame'[t]
            IN /\ ReadyToStore(f)
               /\ g.pc = "done" /\ g.result.val.tag = "Ok" /\ g.writes = f.writes + 1
               /\ \A u \in Threads \ {t} : frame'[u] = frame[u]
               /\ IF IsLoad(f)
                  THEN /\ sks' = sks
                       /\ \A k \in Written(canister_sks, canister_sks') : canister_sks'[k] = IDkgCommitmentOpening(f.opening.val)
                  ELSE /\ canister_sks' = canister_sks
                       /\ \A k \in Written(sks, sks') : sks'[k] = KeySetEntry(f.keyset.val)]_vars

\* Both kinds of write have happened, next to a call that returned an error.
C13_Witness ==
  /\ sks # EmptyStore /\ canister_sks # EmptyStore
  /\ \E t \in Threads, u \in Threads :
       /\ frame[t].pc = "done" /\ frame[t].result.val.tag = "Ok" /\ frame[t].writes = 1
       /\ frame[u].pc = "done" /\ frame[u].result.val.tag = "Err"
       /\ frame[u].lib # <<>> /\ frame[u].writes = 0

\* The error variants of each operation's result type.
ErrorKinds(op) ==
  CASE op = "idkg_create_dealing" -> {"SecretSharesNotFound", "InternalError"}
    [] op = "idkg_load_transcript" -> {"PrivateKeyNotFound", "SerializationError", "InternalError"}
    [] op = "idkg_load_transcript_with_openings" -> {"PrivateKeyNotFound", "SerializationError", "InvalidArguments"}
    [] op = "idkg_open_dealing" -> {"PrivateKeyNotFound", "InternalError"}

\* The library failed, or data was missing, in the call summarised by p.
FailedCall(p) == p.result.some /\ p.result.val.tag = "Err"

\* C14: dealing creation, the two loads and dealing opening never abort, and
\* whatever the library returns and whatever is missing from the stores they
\* return Ok or one of the error variants of their result type.
C14_TypedResults ==
  LET f == frame["t1"]
  IN f.op \in {"idkg_create_dealing", "idkg_load_transcript", "idkg_load_transcript_with_openings", "idkg_open_dealing"}
     => /\ f.pc # "aborted"
        /\ f.pc = "done"
             => /\ f.result.some
                /\ f.result.val.tag \in {"Ok", "Err"}
                /\ f.result.val.tag = "Err" => f.result.val.err \in ErrorKinds(f.op)

\* A missing opening after a library failure.
C14_Witness ==
  LET p == prev["t1"]
      f == frame["t1"]
  IN /\ p.op = "idkg_load_transcript" /\ FailedCall(p) /\ p.result.val.err = "InternalError"
     /\ f.op = "idkg_create_dealing" /\ f.pc = "done"
     /\ f.result.val.tag = "Err" /\ f.result.val.err = "SecretSharesNotFound"

Holds(lock, t) == lock.writer = t \/ t \in lock.readers

HoldsStoreLock(t) == Holds(sks_lock, t) \/ Holds(canister_sks_lock, t)

\* Thread t is about to take (and may be blocked on) the CSPRNG's lock.
WaitsForRng(t) == frame[t].pc \in {"cd_seed_lock", "lt_seed_lock", "gk_seed_lock"}

\* Thread t is about to take (and may be blocked on) a store's lock.
WaitsForStore(t) == frame[t].pc \in {"lt_check_lock", "lt_keyset_lock", "lt_store_lock", "lo_check_lock", "lo_keyset_lock", "lo_store_lock", "cd_shares_lock", "cd_shares2_lock", "gk_store_lock", "od_keyset_lock"}

\* C15: no thread holds the CSPRNG's lock while it holds or waits for a
\* store's lock, nor a store's lock while it holds or waits for the CSPRNG's
\* (nor the two stores' locks together); and as long as a call is in flight
\* some thread can take a step.
C15_LocksNeverNested ==
  /\ \A t \in Threads :
       /\ Holds(csprng_lock, t) => ~HoldsStoreLock(t) /\ ~WaitsForStore(t) /\ ~WaitsForRng(t)
       /\ HoldsStoreLock(t) => ~Holds(csprng_lock, t) /\ ~WaitsForRng(t) /\ ~WaitsForStore(t)
       /\ ~(Holds(sks_lock, t) /\ Holds(canister_sks_lock, t))
  /\ (Alive /\ \E t \in Threads : Running(t)) => \E t \in Threads : ENABLED Step(t)

\* One thread holds the CSPRNG's lock while another holds the canister
\* store's write lock.
C15_Witness ==
  \E t \in Threads, u \in Threads :
    /\ Holds(csprng_lock, t) /\ frame[t].op = "idkg_load_transcript"
    /\ canister_sks_lock.writer = u /\ frame[u].op = "idkg_load_transcript_with_openings"

\* C16 as stated: every call a thread has started eventually returns.
C16_EveryCallCompletes == \A t \in Threads : Running(t) ~> frame[t].pc = "done"

\* C16: under fair scheduling every call a thread has started eventually
\* returns, unless the process is aborted by a duplicate key pair insert.
C16_CompletesUnlessAborted == \A t \in Threads : Running(t) ~> (frame[t].pc = "done" \/ ~Alive)

\* A thread waits for the canister store's write lock while the other reads.
C16_Witness ==
  \E t \in Threads, u \in Threads :
    /\ frame[t].pc = "lt_store_lock"
    /\ u \in canister_sks_lock.readers /\ frame[u].op = "idkg_create_dealing"

\* The key identifier a call looked its key pair up under.
LookedUpKeyId(f) == IF f.op = "idkg_open_dealing" THEN f.args.opener_key_id ELSE f.args.key_id

\* C17: a secret-shares-not-found error carries the commitment that had no
\* opening, a private-key-not-found error carries the key id the key pair
\* was looked up under, and neither carries anything else.
C17_NotFoundCarriesIdentity ==
  LET f == frame["t1"]
  IN (f.pc = "done" /\ f.result.val.tag = "Err")
     => /\ f.result.val.err = "SecretSharesNotFound"
             => \E c \in Missing(f.args.transcript_operation) : f.result.val.detail = [commitment_string |-> c]
        /\ f.result.val.err = "PrivateKeyNotFound"
             => f.result.val.detail = [key_id |-> LookedUpKeyId(f)]

\* C19: a load (with or without openings) that has not written and finds an
\* opening stored for its transcript's commitment is never at the key pair
\* lookup, and returns success, whether or not its key id is in the node
\* store, with no library call, no RNG draw and no store write.
C19_ShortCircuitFirst ==
  LET f == frame["t1"]
  IN (/\ IsLoad(f) /\ f.writes = 0
      /\ StoredOpenings(f.args.transcript.combined_commitment) # {})
     => /\ f.pc \in {"lt_check_lock", "lt_check", "lo_check_lock", "lo_check", "done"}
        /\ f.pc = "done"
             => /\ f.result = Some(Ok(IF f.op = "idkg_load_transcript" THEN {} ELSE "unit"))
                /\ f.keyset = None
                /\ f.lib = <<>> /\ f.draws = 0

\* An opening is stored and the load names a key id absent from the node store.
C19_Witness ==
  LET f == frame["t1"]
  IN /\ f.op = "idkg_load_transcript_with_openings" /\ f.pc = "done" /\ f.writes = 0
     /\ StoredOpenings(f.args.transcript.combined_commitment) # {}
     /\ f.args.key_id \notin DOMAIN sks
     /\ prev["t1"].op = "idkg_load_transcript" /\ prev["t1"].args.key_id \notin DOMAIN sks
     /\ prev["t1"].result = Some(Ok({}))

\* C20: an identifier that maps to a value in either store maps to the same
\* value after every step.
C20_StoresOnlyGrow ==
  [][/\ \A k \in DOMAIN sks : k \in DOMAIN sks' /\ sks'[k] = sks[k]
     /\ \A k \in DOMAIN canister_sks : k \in DOMAIN canister_sks' /\ canister_sks'[k] = canister_sks[k]]_vars

\* Both stores hold two entries, and two loads have inserted under one identifier.
C20_Witness ==
  /\ Cardinality(DOMAIN sks) = 2 /\ Cardinality(DOMAIN canister_sks) = 2
  /\ frame["t1"].pc = "done" /\ frame["t2"].pc = "done"
  /\ IsLoad(frame["t1"]) /\ IsLoad(frame["t2"])
  /\ frame["t1"].writes = 1 /\ frame["t2"].writes = 1
  /\ opening_key_id(frame["t1"].args.transcript) = opening_key_id(frame["t2"].args.transcript)

C21_DuplicateKeyIsFatal ==
  [][\A t \in Threads :
       LET f == frame[t]
           g == frame'[t]
           key_id == mega_key_id(f.keyset.val.public_key)
       IN /\ (f.pc = "gk_store" /\ g # f)
               => IF key_id \in DOMAIN sks
                  THEN g.pc = "aborted" /\ sks' = sks
                  ELSE g.pc = "done" /\ sks' = sks_put(sks, key_id, KeySetEntry(f.keyset.val))
          /\ (IsKeyGen(g) /\ g.pc = "done" /\ g.result.val.tag = "Ok")
               => /\ mega_key_id(g.result.val.val) \in DOMAIN sks'
                  /\ sks'[mega_key_id(g.result.val.val)] = KeySetEntry(g.keyset.val)]_vars

\* A key generation has aborted on an identifier already in the node store.
C21_Witness ==
  \E t \in Threads :
    /\ IsKeyGen(frame[t]) /\ frame[t].pc = "aborted"
    /\ mega_key_id(frame[t].keyset.val.public_key) \in DOMAIN sks
    /\ Cardinality(DOMAIN sks) = 2

IsCreateDealing(f) == f.op = "idkg_create_dealing"

\* C22: no step of a dealing creation changes either store; the step that
\* draws takes the RNG's next output as the call's seed; and a dealing
\* creation that returns a dealing has drawn exactly once and has passed the
\* seed drawn to the library, which built the dealing from it.
C22_CreateDealingFrame ==
  [][\A t \in Threads :
       LET f == frame[t]
           g == frame'[t]
       IN (IsCreateDealing(f) /\ g # f /\ IsCreateDealing(g) /\ f.pc # "done")
          => /\ sks' = sks /\ canister_sks' = canister_sks /\ g.writes = 0
             /\ g.draws # f.draws => (g.draws = 1 /\ csprng' = csprng + 1 /\ g.seed = Some(Randomness_from(csprng)))
             /\ g.draws = f.draws => csprng' = csprng
             /\ (g.pc = "done" /\ g.result.val.tag = "Ok")
                  => /\ g.draws = 1 /\ Len(g.lib) = 1
                     /\ g.lib[1].arg.seed = g.seed.val
                     /\ g.result.val.val.seed = g.seed.val]_vars

\* A dealing has been created from stored openings with the third draw.
C22_Witness ==
  LET f == frame["t1"]
  IN /\ IsCreateDealing(f) /\ f.pc = "done" /\ f.result.val.tag = "Ok"
     /\ f.args.transcript_operation.kind = "UnmaskedTimesMasked"
     /\ f.seed = Some(Randomness_from(2))

IsOpenDealing(f) == f.op = "idkg_open_dealing"

\* A node store whose entry under key_id holds key bytes that do not decode.
UndecodableKeySet(key_id) == sks_put(EmptyStore, key_id, MEGaEncryptionK256(<<"garbage">>, <<"garbage">>))

\* C23: a dealing opening that finds no key pair under the opener's key id
\* returns private-key-not-found carrying that key id; one whose key pair
\* does not decode returns the internal error; one whose library call fails
\* returns the internal error, one whose library call succeeds returns the
\* opening; and none draws from the RNG or writes to a store.
C23_OpenDealingErrors ==
  LET f == frame["t1"]
      keyset == mega_keyset_from_sks(sks, f.args.opener_key_id)
  IN (IsOpenDealing(f) /\ f.pc = "done")
     => /\ f.draws = 0 /\ f.writes = 0 /\ f.seed = None
        /\ IF keyset.tag = "Err"
           THEN f.result = Some(Err("PrivateKeyNotFound", [key_id |-> f.args.opener_key_id])) /\ f.lib = <<>>
           ELSE /\ Len(f.lib) = 1 /\ f.lib[1].fn = "open_dealing"
                /\ IF f.lib[1].res.tag = "Ok"
                   THEN f.result = Some(f.lib[1].res)
                   ELSE f.result.val.tag = "Err" /\ f.result.val.err = "InternalError"
        /\ LET h == open_dealing_opened(NewFrame(f.op, f.args), UndecodableKeySet(f.args.opener_key_id))
           IN h.result.val.tag = "Err" /\ h.result.val.err = "InternalError" /\ h.lib = <<>>

\* A failed library call after a missing key pair.
C23_Witness ==
  LET p == prev["t1"]
      f == frame["t1"]
  IN /\ IsOpenDealing(p) /\ p.result.val.tag = "Err" /\ p.result.val.err = "PrivateKeyNotFound"
     /\ IsOpenDealing(f) /\ f.pc = "done" /\ f.lib # <<>>
     /\ f.result.val.tag = "Err" /\ f.result.val.err = "InternalError"

\* Every entry of the canister store is an opening under its commitment's
\* identifier, every entry of the node store a key pair under its public
\* key's identifier.
StoresWellKeyed ==
  /\ \A k \in DOMAIN canister_sks :
       /\ canister_sks[k].kind = "IDkgCommitmentOpening"
       /\ \E c \in Commitments : k = commitment_key_id(c) /\ canister_sks[k].bytes[2].commitment = c
  /\ \A k \in DOMAIN sks :
       /\ sks[k].kind = "MEGaEncryptionK256"
       /\ k = mega_key_id(MEGaPublicKey_try_from(sks[k].public_key))

\* C27: the canister store holds only commitment openings, each under
\* commitment_key_id of its commitment, and the node store only key pairs;
\* no step of a key generation changes the canister store, no step of a load
\* the node store.
C27_NamespaceSeparation ==
  [][/\ StoresWellKeyed'
     /\ \A t \in Threads :
          frame'[t] # frame[t]
          => /\ IsKeyGen(frame[t]) /\ Running(t) => canister_sks' = canister_sks
             /\ IsLoad(frame[t]) /\ Running(t) => sks' = sks]_vars

\* Both stores are populated while a load and a key generation are in flight.
C27_Witness ==
  /\ Cardinality(DOMAIN sks) = 2 /\ Cardinality(DOMAIN canister_sks) = 2
  /\ \E t \in Threads, u \in Threads :
       /\ IsKeyGen(frame[t]) /\ frame[t].pc = "gk_store"
       /\ IsLoad(frame[u]) /\ frame[u].pc \in {"lt_store", "lo_store"}

\* Thread t is inside a draw from the CSPRNG.
InsideDraw(t) == frame[t].pc \in {"cd_seed", "lt_seed", "gk_seed"}

\* Thread t is about to take a store's lock for reading.
WaitsForStoreRead(t) == frame[t].pc \in {"lt_check_lock", "lt_keyset_lock", "lo_check_lock", "lo_keyset_lock", "cd_shares_lock", "cd_shares2_lock", "od_keyset_lock"}

\* C28: at most one thread is inside a draw from the CSPRNG and it holds the
\* CSPRNG's lock for writing; the seeds of two calls are different outputs of
\* the one stream, each below the stream's position; and while a thread holds
\* the CSPRNG's lock another thread about to read a store can take its step.
C28_DrawsExclusive ==
  \A t \in Threads, u \in Threads :
    /\ InsideDraw(t) => csprng_lock.writer = t /\ (InsideDraw(u) => u = t)
    /\ frame[t].seed.some
         => /\ frame[t].seed.val[2] \in 0..(csprng - 1)
            /\ (u # t /\ frame[u].seed.some) => frame[u].seed.val[2] # frame[t].seed.val[2]
    /\ (u # t /\ csprng_lock.writer = t /\ WaitsForStoreRead(u)) => ENABLED Step(u)

\* One thread is inside its draw, holding the seed of no earlier call, while
\* the other, which has drawn already, is about to read a store.
C28_Witness ==
  \E t \in Threads, u \in Threads :
    /\ u # t
    /\ InsideDraw(t) /\ csprng_lock.writer = t
    /\ WaitsForStoreRead(u) /\ frame[u].seed.some

\* C29: every step of a call moves the CSPRNG by what the call draws in it; a
\* finished idkg_load_transcript has drawn once if the library reported
\* inconsistent commitments to it and not at all otherwise, a finished
\* idkg_load_transcript_with_openings or idkg_open_dealing not at all.
C29_DrawsOnlyToComplain ==
  [][LET f == frame["t1"]
         g == frame'["t1"]
     IN (g # f /\ Running("t1"))
        => /\ csprng' - csprng = g.draws - f.draws
           /\ (g.op = "idkg_load_transcript" /\ g.pc = "done")
                => /\ g.draws = (IF Inconsistent(g) THEN 1 ELSE 0)
                   /\ g.seed.some <=> Inconsistent(g)
           /\ (g.op \in {"idkg_load_transcript_with_openings", "idkg_open_dealing"} /\ g.pc = "done")
                => g.draws = 0 /\ g.seed = None]_vars

\* A load with openings that was told of an inconsistency without drawing,
\* followed by a load that drew its seed after the CSPRNG had been used.
C29_Witness ==
  LET p == prev["t1"]
      f == frame["t1"]
  IN /\ p.op = "idkg_load_transcript_with_openings" /\ p.lib # <<>> /\ p.lib[1].res.tag = "Err" /\ p.lib[1].res.err = "InconsistentCommitments"
     /\ f.op = "idkg_load_transcript" /\ f.pc = "done" /\ Inconsistent(f)
     /\ f.draws = 1 /\ csprng = 2

\* The load summarised by p reached the library and returned an error.
FailedLoad(p) == p.op = "idkg_load_transcript" /\ p.lib # <<>> /\ p.result.val.tag = "Err"

\* C30: a finished idkg_load_transcript returns the internal error when the
\* library failed otherwise than with inconsistent commitments, the
\* serialization error when the computed opening did not serialize, and the
\* library's error when complaint generation failed, each time without a
\* write; and the load that follows such a failure is not answered from the
\* store: with the same arguments it calls the library again.
C30_LoadFailuresStoreNothing ==
  LET p == prev["t1"]
      f == frame["t1"]
  IN /\ (f.op = "idkg_load_transcript" /\ f.pc = "done" /\ f.lib # <<>>)
          => /\ (f.lib[1].res.tag = "Err" /\ f.lib[1].res.err # "InconsistentCommitments")
                  => /\ f.result.val.tag = "Err" /\ f.result.val.err = "InternalError"
                     /\ Len(f.lib) = 1 /\ f.writes = 0
             /\ (f.lib[1].res.tag = "Ok" /\ ~f.opening.some)
                  => /\ f.result.val.tag = "Err" /\ f.result.val.err = "SerializationError"
                     /\ f.writes = 0
             /\ (Inconsistent(f) /\ f.lib[2].res.tag = "Err")
                  => f.result = Some(f.lib[2].res) /\ f.writes = 0
             /\ f.result.val.tag = "Err"
                  => StoredOpenings(f.args.transcript.combined_commitment) = {}
     /\ (/\ FailedLoad(p)
         /\ f.op = "idkg_load_transcript" /\ f.pc = "done"
         /\ f.args.transcript.combined_commitment = p.args.transcript.combined_commitment)
          => /\ ~(f.result = Some(Ok({})) /\ f.lib = <<>>)
             /\ f.args = p.args => f.lib # <<>> /\ f.lib[1].fn = "compute_secret_shares"

\* A load whose opening did not serialize, repeated with the same arguments:
\* the second computes the share again and stores it.
C30_Witness ==
  LET p == prev["t1"]
      f == frame["t1"]
  IN /\ FailedLoad(p) /\ p.result.val.err = "SerializationError"
     /\ f.op = "idkg_load_transcript" /\ f.pc = "done" /\ f.args = p.args
     /\ f.result = Some(Ok({})) /\ f.writes = 1

StatelessOps == {"idkg_create_transcript", "idkg_verify_transcript", "idkg_verify_complaint", "ecdsa_combine_sig_shares"}

DelegatedOps == {"idkg_create_dealing", "idkg_load_transcript", "idkg_load_transcript_with_openings", "idkg_create_mega_key_pair", "idkg_open_dealing"}

\* The vault's arguments are the facade's, a public key being replaced by
\* the identifier of its key pair.
ArgsResolved(facade_args, vault_args) ==
  /\ Cardinality(DOMAIN vault_args) = Cardinality(DOMAIN facade_args)
  /\ \A field \in DOMAIN vault_args :
       CASE field = "key_id" -> vault_args[field] = mega_key_id(facade_args.public_key)
         [] field = "opener_key_id" -> vault_args[field] = mega_key_id(facade_args.opener_public_key)
         [] OTHER -> field \in DOMAIN facade_args /\ vault_args[field] = facade_args[field]

\* C25: a secret-dependent call to the facade is one call to the vault
\* operation of the same name (idkg_gen_mega_key_pair for key generation)
\* with the same arguments, mega_key_id of the public key standing for the
\* public key; entering and leaving the facade changes no store, lock or
\* CSPRNG position, and the facade returns the vault's result as it is.
\* Sign-share is the vault's sign-share on the same arguments.
C25_FacadeAddsNothing ==
  [][/\ \A t \in Threads :
          LET call == csp'.call[t]
              f == frame'[t]
          IN call.op \in DelegatedOps
             => /\ f.op = (IF call.op = "idkg_create_mega_key_pair" THEN "idkg_gen_mega_key_pair" ELSE call.op)
                /\ ArgsResolved(call.args, f.args)
                /\ call # csp.call[t] => UNCHANGED <<sks, canister_sks, csprng, csprng_lock, sks_lock, canister_sks_lock>>
                /\ call.result.some => f.pc = "done" /\ call.result = f.result
                /\ (call.result.some /\ call = csp.call[t]) => f = frame[t]
     /\ \A r \in Receivers, n \in 0..Len(QuintupleOrder), h \in MessageHashes :
          ecdsa_sign_share(LoadedCommitments(n), r, "path", h, "nonce", SigTranscript("key"), SigTranscript("kappa_unmasked"), SigTranscript("lambda_masked"), SigTranscript("kappa_times_lambda"), SigTranscript("key_times_lambda"), "ThresholdEcdsaSecp256k1")
          = vault_ecdsa_sign_share(LoadedCommitments(n), r, "path", h, "nonce", SigTranscript("key"), SigTranscript("kappa_unmasked"), SigTranscript("lambda_masked"), SigTranscript("kappa_times_lambda"), SigTranscript("key_times_lambda"), "ThresholdEcdsaSecp256k1")]_vars

\* The facade has returned the complaints of a load made with the second
\* public key, which the vault drew a seed for.
C25_Witness ==
  LET call == csp.call["t1"]
      f == frame["t1"]
  IN /\ call.op = "idkg_load_transcript" /\ call.args.public_key = gen_keypair("K256", 1).public_key
     /\ call.result.some /\ call.result.val.tag = "Ok" /\ call.result.val.val # {}
     /\ f.args.key_id = mega_key_id(call.args.public_key) /\ f.draws = 1

\* The public key a call to the facade names its key pair by.
NamedKey(call) == IF call.op = "idkg_open_dealing" THEN call.args.opener_public_key ELSE call.args.public_key

\* C26: every public key the facade's key generation has returned has its
\* key pair in the node store under mega_key_id of the key, and no load, load
\* with openings or open-dealing made through the facade with such a key
\* returns private-key-not-found.
C26_KeyIdRoundTrip ==
  /\ \A pk \in csp.keys :
       /\ mega_key_id(pk) \in DOMAIN sks
       /\ mega_keyset_from_sks(sks, mega_key_id(pk)).tag = "Ok"
       /\ mega_keyset_from_sks(sks, mega_key_id(pk)).val.public_key = pk
  /\ \A t \in Threads :
       LET call == csp.call[t]
       IN (/\ call.op \in {"idkg_load_transcript", "idkg_load_transcript_with_openings", "idkg_open_dealing"}
           /\ NamedKey(call) \in csp.keys
           /\ call.result.some /\ call.result.val.tag = "Err")
          => call.result.val.err # "PrivateKeyNotFound"

\* A dealing opened with the only key pair generated so far, the second of
\* the key space.
C26_Witness ==
  LET call == csp.call["t1"]
  IN /\ call.op = "idkg_open_dealing" /\ call.result.some /\ call.result.val.tag = "Ok"
     /\ csp.keys = {gen_keypair("K256", 1).public_key}
     /\ NamedKey(call) \in csp.keys

\* C31: a finished dealing creation for UnmaskedTimesMasked(c1, c2) has
\* called the library only if openings of both c1 and c2 are stored; if c1
\* has none (c2 having one or not) it returns secret-shares-not-found naming
\* c1, and if only c2 has none, naming c2.
C31_LookupOrder ==
  LET f == frame["t1"]
      op == f.args.transcript_operation
      missing == Missing(op)
  IN (IsCreateDealing(f) /\ f.pc = "done" /\ op.kind = "UnmaskedTimesMasked")
     => /\ f.lib # <<>> => missing = {}
        /\ op.commitment_1 \in missing
             => f.result = Some(Err("SecretSharesNotFound", [commitment_string |-> op.commitment_1]))
        /\ missing = {op.commitment_2} /\ op.commitment_1 # op.commitment_2
             => f.result = Some(Err("SecretSharesNotFound", [commitment_string |-> op.commitment_2]))

\* A product whose first commitment had no opening, named in its error,
\* followed by a product of two different commitments of which only the
\* second has none.
C31_Witness ==
  LET p == prev["t1"]
      f == frame["t1"]
      op == f.args.transcript_operation
  IN /\ IsCreateDealing(f) /\ f.pc = "done" /\ op.kind = "UnmaskedTimesMasked"
     /\ op.commitment_1 # op.commitment_2
     /\ Missing(op) = {op.commitment_2}
     /\ f.result.val.tag = "Err" /\ f.result.val.detail.commitment_string = op.commitment_2
     /\ p.op = "idkg_create_dealing" /\ p.args.transcript_operation.kind = "UnmaskedTimesMasked"
     /\ p.args.transcript_operation.commitment_1 # p.args.transcript_operation.commitment_2
     /\ p.result.val.tag = "Err" /\ p.result.val.err = "SecretSharesNotFound"
     /\ p.result.val.detail.commitment_string = p.args.transcript_operation.commitment_1

\* C32: a finished dealing creation for a reshare or a product got past the
\* share lookup (did not fail with secret-shares-not-found) if and only if,
\* for each commitment it references, a load or a load with openings of a
\* transcript with that commitment had returned successfully before; a load
\* that returned complaints or an error adds nothing to these: between calls
\* the commitments loaded with success are those with a stored opening.
C32_LoadsEnableDealings ==
  /\ (\A t \in Threads : ~CspPending(t)) => csp.loaded = {c \in Commitments : StoredOpenings(c) # {}}
  /\ \A t \in Threads :
       LET call == csp.call[t]
           op == call.args.transcript_operation
       IN (call.op = "idkg_create_dealing" /\ call.result.some /\ op.kind # "Random")
          => ((call.result.val.tag = "Ok" \/ call.result.val.err # "SecretSharesNotFound")
                <=> Referenced(op) \subseteq csp.loaded)

\* A product of c1 with itself got its shares: the load of c1 had returned
\* complaints or an error before it succeeded.
C32_Witness ==
  LET call == csp.call["t1"]
  IN /\ call.op = "idkg_create_dealing" /\ call.result.some
     /\ call.args.transcript_operation.kind = "UnmaskedTimesMasked"
     /\ call.result.val.tag = "Ok"
     /\ "c1" \in csp.failed /\ "c1" \in csp.loaded

\* C33: once retry is entered and has returned, f was called at least once;
\* every call of f but the last failed and was followed by one sleep of at
\* least the backoff; Ok is returned with the value of the last call of f;
\* an error is returned only when the last call failed with more than the
\* timeout elapsed since the start, and it is that call's error under the
\* "Timed out!" context.
C33_RetryUntilTimeout ==
  LET r == retrying
  IN /\ r.pc \in {"loop", "sleep"} => r.attempt = r.slept + 1
     /\ r.pc = "loop" => r.calls = r.slept
     /\ r.pc = "sleep" => r.calls = r.slept + 1 /\ r.last.val.call = r.calls
     /\ r.pc # "idle" => r.now - r.start >= r.slept * r.backoff
     /\ r.pc = "done"
          => /\ r.calls >= 1 /\ r.calls = r.slept + 1 /\ r.attempt = r.calls
             /\ r.result.val.tag = "Ok" => r.result.val.val = <<"value", r.calls>>
             /\ r.result.val.tag = "Err"
                  => /\ r.now - r.start > r.timeout
                     /\ r.last.val.call = r.calls
                     /\ r.result.val.err = TimedOut(r.last.val)

\* The wait for a healthy node gave up at its nineteenth attempt, just past
\* the timeout.
C33_Witness ==
  LET r == retrying
  IN /\ r.pc = "done" /\ r.result.val.tag = "Err"
     /\ r.timeout = RETRY_TIMEOUT /\ r.backoff = RETRY_BACKOFF
     /\ r.calls = 19 /\ r.slept = 18 /\ r.now - r.start = RETRY_TIMEOUT + 1
     /\ r.result.val.err.source.msg = "Not ready!"

====
